---------------------------- MODULE Spec2Model ----------------------------
(***************************************************************************)
(* State-machine model of the OBA roster tooling (2capper/Nest, server/).  *)
(*                                                                         *)
(*   - roster cache        OBARosterScraper (roster_scraper.py)            *)
(*   - team registry       COBAWebScraper / COBATeamScraper (oba_teams),   *)
(*                         EnhancedOBARosterSystem (team_database)         *)
(*   - fuzzy resolver      OBARosterScraper.get_roster_with_fuzzy_match,   *)
(*                         EnhancedOBARosterSystem.import_roster_for_team  *)
(*                                                                         *)
(* Everything is synchronous and single-threaded: one action is one call   *)
(* of a public method, run to completion.                                  *)
(***************************************************************************)
EXTENDS Integers, Sequences, FiniteSets, TLC

VARIABLES
    now,            \* datetime.now() / NOW(), in hours since the start
    roster_cache,   \* sqlite table roster_cache: a set of rows
    puts,           \* history: per cache key, the last cache_roster call
    ret,            \* the last call: its name, arguments and return value
    oba_teams,      \* postgres table oba_teams: a sequence of rows
    team_database,  \* sqlite table team_database: rows in rowid order
    probes,         \* roster-availability requests sent by the last call
    scores          \* the scorer: the tables of fuzz.ratio and token_sort_ratio

vars == <<now, roster_cache, puts, ret, oba_teams, team_database, probes, scores>>

\* An Optional value is kept as a sequence: None (Python's None, no row, SQL
\* NULL) is the empty one and Some(x) holds x.
None == << >>
Some(x) == <<x>>

-----------------------------------------------------------------------------
(* Bounds of the model.                                                    *)

\* The clock advances in steps of TickHours, up to MaxNow hours.
TickHours == 12
MaxNow == 48

\* save_teams_to_database is called with lists of at most MaxTeams teams.
MaxTeams == 2

\* Between registry scans the clock advances up to MaxScanNow hours.
MaxScanNow == 12

(* Program constants.                                                      *)

\* self.cache_duration_hours (roster_scraper.py:16)
cache_duration_hours == 24

\* the fallback team number of scrape_roster (roster_scraper.py:205)
DefaultTeamNumber == 500718

-----------------------------------------------------------------------------
(* Team URLs.  A URL is kept as the parts the code looks at: the affiliate *)
(* number and team number of ".../stats#/<aff>/team/<num>/roster", or the  *)
(* slug of ".../stats/<slug>" (no "team/<digits>" in it).                  *)

TeamUrl(aff, num) == [aff |-> aff, num |-> num, slug |-> ""]
SlugUrl(slug) == [aff |-> "", num |-> 0, slug |-> slug]

\* re.search(r'team/(\d+)', team_url) and the fallback of scrape_roster
TeamNumberOf(team_url) ==
    IF team_url.slug = "" THEN team_url.num ELSE DefaultTeamNumber

\* the URLs callers pass to the cache and to scrape_roster
Urls == { TeamUrl("2111", 500721), SlugUrl("tecumseh-eagles-15u") }

-----------------------------------------------------------------------------
(* Conversions.                                                            *)

\* str(n) for n >= 0: the decimal digits, most significant first
RECURSIVE Str(_)
Str(n) == IF n < 10 THEN <<n>> ELSE Append(Str(n \div 10), (n % 10))

\* datetime.isoformat(): the text "<date>T<time>", kept as <<day, hour>>
IsoFormat(t) == <<(t \div 24), (t % 24)>>

\* datetime.fromisoformat(text)
FromIsoFormat(text) == (text[1] * 24) + text[2]

\* json.dumps(roster_data): the (key, value) pairs of the dict, in order
JsonDumps(d) ==
    << <<"team_url", d.team_url>>, <<"players", d.players>>,
       <<"scraped_at", d.scraped_at>> >>

\* json.loads(text)
JsonLoads(text) ==
    [team_url |-> text[1][2], players |-> text[2][2], scraped_at |-> text[3][2]]

\* truth value of an Optional[Dict]: None is false, and so is an empty dict;
\* every roster dict has the three keys above, hence is true
Truthy(d) == d # None

-----------------------------------------------------------------------------
(* The generated test roster of scrape_roster.                             *)

first_names == <<"John", "Mike", "David", "Chris", "Tom", "Ryan", "Matt",
                 "James", "Kevin", "Steve", "Brian", "Paul", "Mark", "Jason">>
last_names == <<"Smith", "Johnson", "Wilson", "Brown", "Davis", "Miller",
                "Anderson", "Taylor", "Thomas", "Jackson", "White", "Harris",
                "Martin", "Thompson">>

\* one iteration of the loop `for i in range(num_players)` (i from 0)
TestPlayer(i, team_number) ==
    [number |-> Str(((i + 1 + team_number) % 99) + 1),
     name   |-> << first_names[(i % Len(first_names)) + 1],
                   last_names[((i + team_number) % Len(last_names)) + 1] >>]

\* roster_data as built by scrape_roster at time t
GenerateRoster(team_url, t) ==
    LET team_number == TeamNumberOf(team_url)
        num_players == 12 + (team_number % 4)
    IN  [team_url   |-> team_url,
         players    |-> [i \in 1..num_players |-> TestPlayer(i - 1, team_number)],
         scraped_at |-> IsoFormat(t)]

-----------------------------------------------------------------------------
(* The roster cache (table roster_cache, team_url TEXT PRIMARY KEY).       *)

CacheKeys(cache) == { r.team_url : r \in cache }

\* a mutant of InsertOrReplace: a plain INSERT into a table without the key
InsertKeepingOld(cache, row) == cache \cup {row}

\* INSERT OR REPLACE: the row with the same primary key is deleted first
InsertOrReplace(cache, row) ==
    { r \in cache : r.team_url # row.team_url } \cup {row}

\* cache_roster(team_url, roster_data) at time t: the new table
CacheRosterStore(cache, team_url, roster_data, t) ==
    InsertOrReplace(cache,
        [team_url    |-> team_url,
         roster_data |-> JsonDumps(roster_data),
         timestamp   |-> IsoFormat(t)])

\* the history of cache_roster calls: the last payload and time per key
CacheRosterPuts(p, team_url, roster_data, t) ==
    [p EXCEPT ![team_url] = Some([payload |-> roster_data, cached_at |-> t])]

\* a mutant of IsFresh: the boundary instant counts as fresh
IsFreshInclusive(cache_time, t) == t - cache_time <= cache_duration_hours

\* datetime.now() - cache_time < timedelta(hours=self.cache_duration_hours)
IsFresh(cache_time, t) == t - cache_time < cache_duration_hours

\* SELECT ... WHERE team_url = ?; fetchone(): a row, or None
FetchOne(cache, team_url) ==
    IF \E r \in cache : r.team_url = team_url
    THEN Some(CHOOSE r \in cache : r.team_url = team_url)
    ELSE None

\* get_cached_roster(team_url) at time t: the return value
GetCachedRosterResult(cache, team_url, t) ==
    LET result == FetchOne(cache, team_url)
    IN  IF result # None /\ IsFresh(FromIsoFormat(result[1].timestamp), t)
        THEN Some(JsonLoads(result[1].roster_data))
        ELSE None

\* a mutant of GetCachedRosterStore: a stale record is evicted when read
GetCachedRosterEvicting(cache, team_url, t) ==
    LET result == FetchOne(cache, team_url)
    IN  IF result # None /\ ~IsFresh(FromIsoFormat(result[1].timestamp), t)
        THEN cache \ {result[1]}
        ELSE cache

\* get_cached_roster(team_url) at time t: the table afterwards (a SELECT only)
GetCachedRosterStore(cache, team_url, t) == cache

\* a mutant of ScrapeRosterEffect: a hit is written back, refreshing cached_at
ScrapeRosterRefreshing(cache, p, team_url, t) ==
    LET cached == GetCachedRosterResult(cache, team_url, t)
        roster_data == IF Truthy(cached) THEN cached[1]
                       ELSE GenerateRoster(team_url, t)
    IN  [cache  |-> CacheRosterStore(cache, team_url, roster_data, t),
         puts   |-> CacheRosterPuts(p, team_url, roster_data, t),
         result |-> Some(roster_data)]

\* scrape_roster(team_url) at time t: the table, the history of cache_roster
\* calls and the return value
ScrapeRosterEffect(cache, p, team_url, t) ==
    LET cached == GetCachedRosterResult(cache, team_url, t)
        after_get == GetCachedRosterStore(cache, team_url, t)
    IN  IF Truthy(cached)
        THEN [cache |-> after_get, puts |-> p, result |-> cached]
        ELSE LET roster_data == GenerateRoster(team_url, t)
             IN  [cache  |-> CacheRosterStore(after_get, team_url, roster_data, t),
                  puts   |-> CacheRosterPuts(p, team_url, roster_data, t),
                  result |-> Some(roster_data)]

\* the roster dicts a caller may hand to cache_roster for team_url at time t
Payloads(team_url, t) ==
    { GenerateRoster(team_url, s) : s \in { x \in 0..t : x % TickHours = 0 } }

-----------------------------------------------------------------------------
(* Actions of the roster cache.                                            *)

\* time passes between two calls
Tick ==
    /\ now + TickHours <= MaxNow
    /\ now' = now + TickHours
    /\ UNCHANGED <<roster_cache, puts, ret, oba_teams, team_database, probes, scores>>

CacheRoster(team_url, roster_data) ==
    /\ roster_cache' = CacheRosterStore(roster_cache, team_url, roster_data, now)
    /\ puts' = CacheRosterPuts(puts, team_url, roster_data, now)
    /\ ret' = [op |-> "cache_roster", team_url |-> team_url, at |-> now,
               existed |-> team_url \in CacheKeys(roster_cache), result |-> None]
    /\ UNCHANGED <<now, oba_teams, team_database, probes, scores>>

GetCachedRoster(team_url) ==
    /\ roster_cache' = GetCachedRosterStore(roster_cache, team_url, now)
    /\ ret' = [op |-> "get_cached_roster", team_url |-> team_url, at |-> now,
               result |-> GetCachedRosterResult(roster_cache, team_url, now)]
    /\ UNCHANGED <<now, puts, oba_teams, team_database, probes, scores>>

ScrapeRoster(team_url) ==
    LET e == ScrapeRosterEffect(roster_cache, puts, team_url, now)
    IN  /\ roster_cache' = e.cache
        /\ puts' = e.puts
        /\ ret' = [op |-> "scrape_roster", team_url |-> team_url, at |-> now,
                   result |-> e.result]
        /\ UNCHANGED <<now, oba_teams, team_database, probes, scores>>

-----------------------------------------------------------------------------
(* The team registry: table oba_teams (COBAWebScraper, COBATeamScraper).   *)
(* A row keeps the columns the two scrapers read and write; the serial id  *)
(* is the row's position.  A team dict has the keys team_id, team_name,    *)
(* organization, division, level and affiliate.                            *)

\* the team dicts handed to save_teams_to_database: two team ids, one of them
\* under two names, with the fields parse_team_name gives for each name
TeamDict(id, name, org, div, lvl, aff) ==
    [team_id |-> id, team_name |-> name, organization |-> org,
     division |-> div, level |-> lvl, affiliate |-> aff]

TeamInputs ==
    { TeamDict("499401", "Burlington 10U 3 A", "Burlington", "10U", "A", "COBA"),
      TeamDict("499401", "Burlington Bulls 11U AA", "Burlington Bulls", "11U", "AA", "LDBA"),
      TeamDict("499455", "Halton Hills 10U A", "Halton Hills", "10U", "A", "COBA") }

TeamIds == { t.team_id : t \in TeamInputs }

\* outcomes of requests.get(roster_url, timeout=10)
Responses == { "200", "404", "timeout" }

\* check_roster_availability that sets the player count before it looks at
\* the status
CheckRosterAvailabilityCounting(response) ==
    IF response = "200" THEN <<TRUE, 15>> ELSE <<FALSE, 15>>

\* check_roster_availability(team_id), given the outcome of the request:
\* (has_roster, player_count)
CheckRosterAvailability(response) ==
    IF response = "200" THEN <<TRUE, 15>> ELSE <<FALSE, 0>>

\* SELECT id ... FROM oba_teams WHERE team_id = %s: the positions of the rows
RowsWithId(table, team_id) ==
    { i \in DOMAIN table : table[i].team_id = team_id }

\* INSERT INTO oba_teams (team_id, ..., has_roster, player_count, is_active):
\* last_scanned is not given and stays NULL
InsertTeam(table, team, has_roster, player_count) ==
    Append(table,
        [team_id |-> team.team_id, team_name |-> team.team_name,
         organization |-> team.organization, division |-> team.division,
         level |-> team.level, affiliate |-> team.affiliate,
         has_roster |-> has_roster, player_count |-> player_count,
         is_active |-> TRUE, last_scanned |-> None])

\* UPDATE oba_teams SET team_name, organization, division, level, affiliate,
\* is_active = True, last_scanned = NOW() WHERE team_id = %s
UpdateTeam(table, team, t) ==
    [i \in DOMAIN table |->
        IF table[i].team_id = team.team_id
        THEN [table[i] EXCEPT !.team_name = team.team_name,
                              !.organization = team.organization,
                              !.division = team.division,
                              !.level = team.level,
                              !.affiliate = team.affiliate,
                              !.is_active = TRUE,
                              !.last_scanned = Some(t)]
        ELSE table[i]]

\* the request check_roster_availability sends, and the pause after a save
ProbeEvent(team_id, response) ==
    [kind |-> "probe", team_id |-> team_id, response |-> response]
SleepEvent(team_id) ==
    [kind |-> "sleep", team_id |-> team_id, response |-> ""]

\* the state a save loop carries: the table, the requests sent, the counters
SaveState(table) ==
    [table |-> table, probes |-> << >>, saved_count |-> 0, updated_count |-> 0]

\* a mutant of WebSaveOne: the roster is probed again for a known team
WebSaveOneReprobing(st, team, resp, t) ==
    LET avail == CheckRosterAvailability(resp[team.team_id])
    IN  IF RowsWithId(st.table, team.team_id) # {}
        THEN [st EXCEPT
                !.table = [i \in DOMAIN st.table |->
                    IF st.table[i].team_id = team.team_id
                    THEN [UpdateTeam(st.table, team, t)[i] EXCEPT
                            !.has_roster = avail[1], !.player_count = avail[2]]
                    ELSE st.table[i]],
                !.probes = Append(@, ProbeEvent(team.team_id, resp[team.team_id])),
                !.updated_count = @ + 1]
        ELSE [st EXCEPT
                !.table = InsertTeam(@, team, avail[1], avail[2]),
                !.probes = Append(@, ProbeEvent(team.team_id, resp[team.team_id])),
                !.saved_count = @ + 1]

\* COBAWebScraper.save_teams_to_database: the body of `for team in teams`
WebSaveOne(st, team, resp, t) ==
    IF RowsWithId(st.table, team.team_id) # {}
    THEN [st EXCEPT !.table = UpdateTeam(@, team, t),
                    !.updated_count = @ + 1]
    ELSE LET avail == CheckRosterAvailability(resp[team.team_id])
         IN  [st EXCEPT
                !.table = InsertTeam(@, team, avail[1], avail[2]),
                !.probes = Append(@, ProbeEvent(team.team_id, resp[team.team_id])),
                !.saved_count = @ + 1]

\* COBATeamScraper.save_teams_to_database: the body of `for team in teams`
TeamSaveOne(st, team, resp, t) ==
    IF RowsWithId(st.table, team.team_id) # {}
    THEN st
    ELSE LET avail == CheckRosterAvailability(resp[team.team_id])
         IN  [st EXCEPT
                !.table = InsertTeam(@, team, avail[1], avail[2]),
                !.probes = @ \o << ProbeEvent(team.team_id, resp[team.team_id]),
                                   SleepEvent(team.team_id) >>,
                !.saved_count = @ + 1]

\* COBAWebScraper.save_teams_to_database: the loop over teams[i..]
RECURSIVE WebSaveLoop(_, _, _, _, _)
WebSaveLoop(st, teams, i, resp, t) ==
    IF i > Len(teams) THEN st
    ELSE WebSaveLoop(WebSaveOne(st, teams[i], resp, t), teams, i + 1, resp, t)

\* COBATeamScraper.save_teams_to_database: the loop over teams[i..]
RECURSIVE TeamSaveLoop(_, _, _, _, _)
TeamSaveLoop(st, teams, i, resp, t) ==
    IF i > Len(teams) THEN st
    ELSE TeamSaveLoop(TeamSaveOne(st, teams[i], resp, t), teams, i + 1, resp, t)

\* COBAWebScraper.save_teams_to_database(teams): the final loop state and the
\* return value; an empty list returns 0 before the database is opened
WebSaveEffect(table, teams, resp, t) ==
    IF teams = << >>
    THEN [st |-> SaveState(table), result |-> 0]
    ELSE LET st == WebSaveLoop(SaveState(table), teams, 1, resp, t)
         IN  [st |-> st, result |-> st.saved_count + st.updated_count]

\* COBATeamScraper.save_teams_to_database(teams)
TeamSaveEffect(table, teams, resp, t) ==
    LET st == TeamSaveLoop(SaveState(table), teams, 1, resp, t)
    IN  [st |-> st, result |-> st.saved_count]

-----------------------------------------------------------------------------
(* The team registry: table team_database (EnhancedOBARosterSystem),       *)
(* team_id TEXT PRIMARY KEY.                                               *)

\* INSERT OR REPLACE INTO team_database: store_team_in_db(team_info)
StoreTeamInDb(table, team_info) ==
    SelectSeq(table, LAMBDA r : r.team_id # team_info.id) \o
    << [team_id |-> team_info.id, team_name |-> team_info.name,
       division |-> team_info.division,
       classification |-> team_info.classification,
       affiliate_number |-> team_info.affiliate_number,
       affiliate_name |-> team_info.affiliate_name,
       team_url |-> team_info.url,
       player_count |-> team_info.player_count,
       last_scanned |-> team_info.last_scanned] >>

\* team_info as build_comprehensive_team_database assembles it
TeamInfo(id, name, div, cls, aff_no, aff_name, count, t) ==
    [id |-> id, name |-> name, division |-> div, classification |-> cls,
     affiliate_number |-> aff_no, affiliate_name |-> aff_name,
     url |-> TeamUrl(aff_no, id), player_count |-> count,
     last_scanned |-> IsoFormat(t)]

\* the team_info dicts handed to store_team_in_db at time t
TeamInfos(t) ==
    { TeamInfo(500400, "London Badgers 11U AAA", "11U", "AAA", "2106", "LDBA", 12, t),
      TeamInfo(500400, "London Badgers Select 13U", "13U", "A", "2106", "LDBA", 9, t),
      TeamInfo(500305, "Essex Yellow Jackets 11U", "11U", "A", "2111", "SPBA", 11, t) }

-----------------------------------------------------------------------------
(* Actions of the team registry.                                           *)

\* the lists of at most MaxTeams different team dicts (a team id may repeat)
TeamLists ==
    UNION { { l \in [1..n -> TeamInputs] :
                \A i, j \in 1..n : l[i] = l[j] => i = j } : n \in 0..MaxTeams }

WebSave(teams, resp) ==
    LET e == WebSaveEffect(oba_teams, teams, resp, now)
    IN  /\ oba_teams' = e.st.table
        /\ probes' = e.st.probes
        /\ ret' = [op |-> "web_save", teams |-> teams, at |-> now,
                   result |-> e.result]
        /\ UNCHANGED <<now, roster_cache, puts, team_database, scores>>

TeamSave(teams, resp) ==
    LET e == TeamSaveEffect(oba_teams, teams, resp, now)
    IN  /\ oba_teams' = e.st.table
        /\ probes' = e.st.probes
        /\ ret' = [op |-> "team_save", teams |-> teams, at |-> now,
                   result |-> e.result]
        /\ UNCHANGED <<now, roster_cache, puts, team_database, scores>>

StoreTeam(team_info) ==
    /\ team_database' = StoreTeamInDb(team_database, team_info)
    /\ probes' = << >>
    /\ ret' = [op |-> "store_team_in_db", teams |-> <<team_info>>, at |-> now,
               result |-> None]
    /\ UNCHANGED <<now, roster_cache, puts, oba_teams, scores>>

-----------------------------------------------------------------------------
(* The fuzzy resolver of OBARosterScraper.  A team name, like a division,  *)
(* is kept as the sequence of its space-separated words, so that cutting   *)
(* at " - ", dropping a trailing word and joining with the division are    *)
(* computed on the words as the code computes them on the string.          *)

\* the lowest score find_best_team_match accepts (roster_scraper.py:242)
MinSimilarity == 60

\* "11U" in division: the words of a division hold no part of another word
Has(division, text) == \E i \in DOMAIN division : division[i] = text

\* team_name.split(' - ')[0]: the words before the first "-" that stands
\* between two words
SplitAtDash(team_name) ==
    LET dashes == { i \in 2..(Len(team_name) - 1) : team_name[i] = "-" }
    IN  IF dashes = {} THEN team_name
        ELSE SubSeq(team_name, 1,
                    (CHOOSE i \in dashes : \A j \in dashes : i <= j) - 1)

common_suffixes ==
    << <<"Falcons">>, <<"Eagles">>, <<"Knights">>, <<"Warriors">>,
       <<"Tigers">>, <<"Hawks">>, <<"Cardinals">>, <<"Blue", "Jays">>,
       <<"Cubs">> >>

\* clean_name.endswith(' ' + suffix)
EndsWith(clean_name, suffix) ==
    /\ Len(clean_name) > Len(suffix)
    /\ SubSeq(clean_name, Len(clean_name) - Len(suffix) + 1, Len(clean_name)) = suffix

\* the loop over common_suffixes: the first suffix found is cut off, once;
\* None when the name ends with none of them
StripSuffix(base_name) ==
    LET hits == { i \in DOMAIN common_suffixes :
                    EndsWith(base_name, common_suffixes[i]) }
        first == CHOOSE i \in hits : \A j \in hits : i <= j
    IN  IF hits = {} THEN None
        ELSE Some(SubSeq(base_name, 1,
                         Len(base_name) - Len(common_suffixes[first])))

\* a mutant of Unique: of a repeated variation the last occurrence is kept
RECURSIVE UniqueKeepingLast(_)
UniqueKeepingLast(variations) ==
    IF variations = << >> THEN << >>
    ELSE LET rest == UniqueKeepingLast(SubSeq(variations, 2, Len(variations)))
             v == variations[1]
         IN  IF \E i \in DOMAIN rest : rest[i] = v THEN rest
             ELSE <<v>> \o rest

\* the loop over variations with the set seen: first occurrences, in order
RECURSIVE Unique(_)
Unique(variations) ==
    IF variations = << >> THEN << >>
    ELSE LET front == Unique(SubSeq(variations, 1, Len(variations) - 1))
             v == variations[Len(variations)]
         IN  IF \E i \in DOMAIN front : front[i] = v THEN front
             ELSE Append(front, v)

\* the list variations of generate_team_name_variations before duplicates
\* are removed
RawVariations(team_name, division) ==
    LET base_name == SplitAtDash(team_name)
        stripped == StripSuffix(base_name)
        clean_name == IF stripped = None THEN base_name ELSE stripped[1]
        plain == <<team_name, base_name>> \o
                 (IF stripped = None THEN << >> ELSE <<clean_name>>)
        formats ==
            IF Has(division, "11U") \/ Has(division, "13U")
            THEN << division \o <<"HS">> \o clean_name,
                    division \o clean_name,
                    clean_name \o division \o <<"HS">>,
                    clean_name \o division,
                    division \o clean_name,
                    clean_name >>
            ELSE << >>
    IN  plain \o formats

\* generate_team_name_variations(team_name, division)
GenerateTeamNameVariations(team_name, division) ==
    Unique(RawVariations(team_name, division))

(* The scorer.  fuzz.ratio and fuzz.token_sort_ratio are library functions *)
(* of two strings with an integer value in 0..100; the model keeps each as *)
(* a table chosen at the start: a default score and the scores of a few    *)
(* pairs that differ from it.                                              *)

ScoreTable(default, hot) == [default |-> default, hot |-> hot]

\* the score the table gives the pair (query, choice)
Ratio(table, query, choice) ==
    IF <<query, choice>> \in DOMAIN table.hot
    THEN table.hot[<<query, choice>>]
    ELSE table.default

\* process.extractOne(query, choices, scorer): the choice with the highest
\* score and its score, the first such choice when several share it
ExtractOne(table, query, choices) ==
    LET s(i) == Ratio(table, query, choices[i])
        best == CHOOSE i \in DOMAIN choices :
                    /\ \A j \in DOMAIN choices : s(j) <= s(i)
                    /\ \A j \in DOMAIN choices : j < i => s(j) < s(i)
    IN  IF choices = << >> THEN None
        ELSE Some(<<choices[best], s(best)>>)

(* The candidate mapping: a dict of team name -> URL, kept as the sequence *)
(* of its items in insertion order; the names of a mapping are distinct.   *)

Entry(name, url) == [name |-> name, url |-> url]

\* list(teams.keys())
Keys(teams) == [i \in DOMAIN teams |-> teams[i].name]

\* teams[matched_name]
UrlOf(teams, name) ==
    teams[CHOOSE i \in DOMAIN teams : teams[i].name = name].url

\* self.affiliate_map.get(affiliate, "2111")
GetAffiliateNumber(affiliate) ==
    IF affiliate \in {"Sun Parlour", "SPBA"} THEN "2111" ELSE "2111"

\* the test teams of get_division_teams for an 11U division
Catalog11U(affiliate_number) ==
    << Entry(<<"11U", "HS", "Belle", "River">>, TeamUrl(affiliate_number, 500719)),
       Entry(<<"11U", "HS", "Forest", "Glade">>, TeamUrl(affiliate_number, 500718)),
       Entry(<<"11U", "HS", "Kingsville">>, TeamUrl(affiliate_number, 500720)),
       Entry(<<"11U", "HS", "Ottawa", "Petro", "Canada">>, TeamUrl(affiliate_number, 500721)),
       Entry(<<"11U", "HS", "Pickering">>, TeamUrl(affiliate_number, 500722)),
       Entry(<<"11U", "HS", "Niagara", "Falls">>, TeamUrl(affiliate_number, 500723)),
       Entry(<<"11U", "HS", "Chatham-Kent">>, TeamUrl(affiliate_number, 500724)),
       Entry(<<"11U", "HS", "Mississauga">>, TeamUrl(affiliate_number, 500725)),
       Entry(<<"11U", "HS", "The", "Park", "9">>, TeamUrl(affiliate_number, 500726)),
       Entry(<<"11U", "HS", "Guelph">>, TeamUrl(affiliate_number, 500727)),
       Entry(<<"11U", "HS", "Sarnia", "Brigade">>, TeamUrl(affiliate_number, 500730)),
       Entry(<<"11U", "HS", "London", "Scorpions">>, TeamUrl(affiliate_number, 500731)),
       Entry(<<"11U", "HS", "London", "Scripions">>, TeamUrl(affiliate_number, 500731)),
       Entry(<<"11U", "HS", "Royals">>, TeamUrl(affiliate_number, 500732)),
       Entry(<<"11U", "HS", "London", "Nationals">>, TeamUrl(affiliate_number, 500733)),
       Entry(<<"Sarnia", "Brigade", "U11">>, TeamUrl(affiliate_number, 500730)),
       Entry(<<"Royals", "U11">>, TeamUrl(affiliate_number, 500732)),
       Entry(<<"London", "Nationals", "11U">>, TeamUrl(affiliate_number, 500733)) >>

\* the test teams of get_division_teams for a 13U division
Catalog13U(affiliate_number) ==
    << Entry(<<"Durham", "Crushers", "-", "13U">>, TeamUrl(affiliate_number, 500800)),
       Entry(<<"Etobicoke", "Rangers", "-", "13U">>, TeamUrl(affiliate_number, 500801)),
       Entry(<<"Forest", "Glade", "Falcons", "-", "13U", "Rep">>, TeamUrl(affiliate_number, 500802)),
       Entry(<<"Milton", "Mets", "-", "13U">>, TeamUrl(affiliate_number, 500803)),
       Entry(<<"Mississauga", "Twins", "-", "13U">>, TeamUrl(affiliate_number, 500804)),
       Entry(<<"East", "Mountain", "Cobras", "-", "13U">>, TeamUrl(affiliate_number, 500805)),
       Entry(<<"Toronto", "Blues", "-", "13U">>, TeamUrl(affiliate_number, 500806)),
       Entry(<<"London", "Tecumsehs", "-", "13U">>, TeamUrl(affiliate_number, 500807)),
       Entry(<<"Ottawa", "Valley", "Crushers", "-", "13U">>, TeamUrl(affiliate_number, 500808)),
       Entry(<<"Burlington", "Bulls", "-", "13U">>, TeamUrl(affiliate_number, 500809)),
       Entry(<<"13U", "HS", "South", "Woodslee", "Orioles">>, TeamUrl(affiliate_number, 500810)),
       Entry(<<"13U", "HS", "East", "Mountain", "Cobras">>, TeamUrl(affiliate_number, 500805)),
       Entry(<<"South", "Woodslee", "Orioles", "13U">>, TeamUrl(affiliate_number, 500810)),
       Entry(<<"East", "Mountain", "Cobras", "U13">>, TeamUrl(affiliate_number, 500805)) >>

\* the test teams of get_division_teams for every other division
CatalogOther ==
    << Entry(<<"Tecumseh", "Eagles", "-", "Minor", "Bantam">>, SlugUrl("tecumseh-eagles-15u")),
       Entry(<<"Windsor", "Selects", "-", "15U">>, SlugUrl("windsor-selects-15u")),
       Entry(<<"LaSalle", "Athletics", "-", "15U", "Rep">>, SlugUrl("lasalle-athletics-15u")) >>

\* get_division_teams without the test teams: what the page gave is returned
GetDivisionTeamsScrapedOnly(affiliate, division, scraped) == scraped

\* get_division_teams(affiliate, season, division): scraped is the dict the
\* loop over the page's links has filled, empty when the request failed or
\* no link passed the filter; the test teams take its place when it is empty
GetDivisionTeams(affiliate, division, scraped) ==
    IF scraped # << >> THEN scraped
    ELSE IF Has(division, "11U") THEN Catalog11U(GetAffiliateNumber(affiliate))
    ELSE IF Has(division, "13U") THEN Catalog13U(GetAffiliateNumber(affiliate))
    ELSE CatalogOther

\* a mutant of MeetsMinimum: a score of exactly the minimum is refused
MeetsMinimumStrictly(score) == score > MinSimilarity

\* best_match[1] >= 60
MeetsMinimum(score) == score >= MinSimilarity

\* find_best_team_match(teams, search_name): None or (name, url, score)
FindBestTeamMatch(table, teams, search_name) ==
    IF teams = << >> THEN None
    ELSE LET best_match == ExtractOne(table, search_name, Keys(teams))
         IN  IF best_match # None /\ MeetsMinimum(best_match[1][2])
             THEN Some([name |-> best_match[1][1],
                        url |-> UrlOf(teams, best_match[1][1]),
                        score |-> best_match[1][2]])
             ELSE None

\* a mutant of Improves: a later variation with the same score also replaces
ImprovesOrTies(match, best_match) ==
    match # None /\ (best_match = None \/ match[1].score >= best_match[1].score)

\* match and (not best_match or match[2] > best_match[2])
Improves(match, best_match) ==
    match # None /\ (best_match = None \/ match[1].score > best_match[1].score)

\* the loop over name_variations, from variation i on; best carries
\* best_match and best_search_term
RECURSIVE BestOverVariations(_, _, _, _, _)
BestOverVariations(table, teams, name_variations, i, best) ==
    IF i > Len(name_variations) THEN best
    ELSE LET variation == name_variations[i]
             match == FindBestTeamMatch(table, teams, variation)
         IN  BestOverVariations(table, teams, name_variations, i + 1,
                 IF Improves(match, best.best_match)
                 THEN [best_match |-> match, best_search_term |-> variation]
                 ELSE best)

\* get_roster_with_fuzzy_match, from the candidate mapping on
FuzzyMatchResult(table, teams, team_name, division) ==
    IF teams = << >>
    THEN [success |-> FALSE,
          error |-> "Could not retrieve teams for this division"]
    ELSE LET name_variations == GenerateTeamNameVariations(team_name, division)
             best == BestOverVariations(table, teams, name_variations, 1,
                         [best_match |-> None, best_search_term |-> team_name])
         IN  IF best.best_match = None
             THEN [success |-> FALSE,
                   error |-> "No matching team found",
                   available_teams |-> Keys(teams)]
             ELSE [success |-> TRUE,
                   needs_confirmation |-> TRUE,
                   matched_team |-> best.best_match[1].name,
                   confidence |-> best.best_match[1].score,
                   team_url |-> best.best_match[1].url,
                   search_term |-> best.best_search_term]

(* Actions of the fuzzy resolver.                                          *)

\* the scraped mappings hold at most MaxScraped teams
MaxScraped == 2

\* the queries callers pass: a name with a mascot and an 11U division, and a
\* name with a " - " and a division without 11U or 13U
Queries ==
    { [affiliate |-> "Sun Parlour", division |-> <<"11U">>,
       team_name |-> <<"Forest", "Glade", "Falcons">>],
      [affiliate |-> "Sun Parlour", division |-> <<"15U", "Rep">>,
       team_name |-> <<"Windsor", "Selects", "-", "15U">>] }

\* the team links a scraped page may hold
ScrapedEntries ==
    { Entry(<<"11U", "HS", "Forest", "Glade">>, TeamUrl("2111", 500718)),
      Entry(<<"Windsor", "Selects", "-", "15U">>, SlugUrl("windsor-selects-15u")) }

\* the dicts the loop over the links can fill: up to MaxScraped different
\* teams in any order, none when the request failed
ScrapedMappings ==
    UNION { { l \in [1..n -> ScrapedEntries] :
                \A i, j \in 1..n : l[i] = l[j] => i = j } : n \in 0..MaxScraped }

\* the pairs whose fuzz.ratio may differ from the default: a variation of a
\* query with a team name of a scraped page
VariationsOf(q) ==
    LET v == GenerateTeamNameVariations(q.team_name, q.division)
    IN  { v[i] : i \in DOMAIN v }
HotPairs ==
    { <<v, e.name>> : v \in UNION { VariationsOf(q) : q \in Queries },
                      e \in ScrapedEntries }

\* scores around the minimum
HotScores == { MinSimilarity - 1, MinSimilarity, MinSimilarity + 1 }
DefaultScores == { 0, MinSimilarity }

\* the fuzz.ratio tables: a default and at most two pairs scored apart
RatioTables ==
    { ScoreTable(d, h) :
        d \in DefaultScores,
        h \in UNION { [S -> HotScores] :
                        S \in {{}} \cup { {p, q} : p, q \in HotPairs } } }

\* a mutant of GetRosterWithFuzzyMatch: the roster of a match is scraped at
\* once, without the confirmation
GetRosterWithFuzzyMatchScraping(affiliate, division, team_name, scraped) ==
    LET teams == GetDivisionTeams(affiliate, division, scraped)
        result == FuzzyMatchResult(scores.ratio, teams, team_name, division)
        e == IF result.success
             THEN ScrapeRosterEffect(roster_cache, puts, result.team_url, now)
             ELSE [cache |-> roster_cache, puts |-> puts]
    IN  /\ ret' = [op |-> "get_roster_with_fuzzy_match",
                   team_name |-> team_name, division |-> division,
                   teams |-> teams, at |-> now,
                   name_variations |->
                       GenerateTeamNameVariations(team_name, division),
                   result |-> result]
        /\ probes' = << >>
        /\ roster_cache' = e.cache
        /\ puts' = e.puts
        /\ UNCHANGED <<now, oba_teams, team_database, scores>>

GetRosterWithFuzzyMatch(affiliate, division, team_name, scraped) ==
    LET teams == GetDivisionTeams(affiliate, division, scraped)
    IN  /\ ret' = [op |-> "get_roster_with_fuzzy_match",
                   team_name |-> team_name, division |-> division,
                   teams |-> teams, at |-> now,
                   name_variations |->
                       GenerateTeamNameVariations(team_name, division),
                   result |-> FuzzyMatchResult(scores.ratio, teams,
                                               team_name, division)]
        /\ probes' = << >>
        /\ UNCHANGED <<now, roster_cache, puts, oba_teams, team_database, scores>>

-----------------------------------------------------------------------------
(* The resolver of EnhancedOBARosterSystem: search_teams_by_name over the  *)
(* table team_database, fetch_live_roster and import_roster_for_team.      *)
(* Names and divisions are the strings stored in team_database.            *)

\* score > 0.4 with score = token_sort_ratio / 100.0 (enhanced_roster_system.py:204)
MinMatchPercent == 40

\* matches[:10] (enhanced_roster_system.py:225)
TopMatches == 10

\* str.lower() on the names of the model
Lower(name) ==
    CASE name = "London Badgers" -> "london badgers"
      [] name = "Essex Yellow Jackets" -> "essex yellow jackets"
      [] name = "London Badgers 11U AAA" -> "london badgers 11u aaa"
      [] name = "London Badgers Select 13U" -> "london badgers select 13u"
      [] name = "Essex Yellow Jackets 11U" -> "essex yellow jackets 11u"
      [] OTHER -> name

\* the dict search_teams_by_name builds of a row and its score; match_score
\* is kept in percent (the code divides by 100.0)
MatchOf(row, score) ==
    [id |-> row.team_id, name |-> row.team_name, division |-> row.division,
     classification |-> row.classification,
     affiliate_number |-> row.affiliate_number,
     affiliate_name |-> row.affiliate_name, url |-> row.team_url,
     player_count |-> row.player_count, match_score |-> score]

\* the loop over the fetched rows, from row i on
RECURSIVE CollectMatches(_, _, _, _, _)
CollectMatches(table, rows, i, team_name, matches) ==
    IF i > Len(rows) THEN matches
    ELSE LET score == Ratio(table, Lower(team_name), Lower(rows[i].team_name))
         IN  CollectMatches(table, rows, i + 1, team_name,
                 IF score > MinMatchPercent
                 THEN Append(matches, MatchOf(rows[i], score))
                 ELSE matches)

\* matches.sort(key = match_score, reverse = True): a stable sort, so equal
\* scores keep the order of the rows
RECURSIVE SortByScore(_)
SortByScore(matches) ==
    IF matches = << >> THEN << >>
    ELSE LET front == SortByScore(SubSeq(matches, 1, Len(matches) - 1))
             m == matches[Len(matches)]
             k == Cardinality({ i \in DOMAIN front :
                                  front[i].match_score >= m.match_score })
         IN  SubSeq(front, 1, k) \o <<m>> \o SubSeq(front, k + 1, Len(front))

\* search_teams_by_name(team_name, division)
SearchTeamsByName(table, rows, team_name, division) ==
    LET fetched == SelectSeq(rows, LAMBDA r : division = "" \/ r.division = division)
        matches == SortByScore(CollectMatches(table, fetched, 1, team_name, << >>))
    IN  SubSeq(matches, 1, IF Len(matches) < TopMatches THEN Len(matches)
                           ELSE TopMatches)

(* fetch_live_roster.  The page curl returned is kept as what the patterns *)
(* find in it: the captures of the three team-name patterns (None where a  *)
(* pattern finds nothing) and the list re.findall gives for the player     *)
(* pattern.  A found player name is its words and whether white space      *)
(* trails them.                                                            *)

\* "Stats - Ontario Baseball" in team_name
IsSiteTitle(team_name) ==
    team_name \in { "Stats - Ontario Baseball Association" }

\* the loop over h1_patterns, from pattern k on
RECURSIVE ParseTeamTitle(_, _, _)
ParseTeamTitle(captures, k, team_name) ==
    IF k > Len(captures) THEN team_name
    ELSE IF captures[k] = None THEN ParseTeamTitle(captures, k + 1, team_name)
    ELSE IF ~IsSiteTitle(captures[k][1]) THEN captures[k][1]
    ELSE ParseTeamTitle(captures, k + 1, captures[k][1])

\* player_name.strip()
Strip(player_name) == player_name.words

\* clean_name[0].isupper(): the words of the model that start in lower case
StartsUpper(clean_name) == clean_name[1] \notin { "skip", "content", "van" }

\* any(word.lower() in clean_name.lower() for word in ['skip', 'content',
\* 'tournament']): the words of the model that hold one of the three
HoldsDeniedWord(clean_name) ==
    \E i \in DOMAIN clean_name :
        clean_name[i] \in { "skip", "Skip", "content", "Content",
                            "Tournament", "Skipper" }

\* the same loop without the check against seen_players
RECURSIVE CleanPlayersKeepingRepeats(_, _, _)
CleanPlayersKeepingRepeats(player_matches, i, players) ==
    IF i > Len(player_matches) THEN players
    ELSE LET clean_name == Strip(player_matches[i])
         IN  CleanPlayersKeepingRepeats(player_matches, i + 1,
                 IF /\ clean_name # << >>
                    /\ Len(clean_name) >= 2
                    /\ StartsUpper(clean_name)
                    /\ ~HoldsDeniedWord(clean_name)
                 THEN Append(players, [number |-> Str(i), name |-> clean_name])
                 ELSE players)

\* the loop over enumerate(player_matches, 1), from match i on
RECURSIVE CleanPlayers(_, _, _)
CleanPlayers(player_matches, i, players) ==
    IF i > Len(player_matches) THEN players
    ELSE LET clean_name == Strip(player_matches[i])
             seen_players == { players[k].name : k \in DOMAIN players }
         IN  CleanPlayers(player_matches, i + 1,
                 IF /\ clean_name # << >>
                    /\ clean_name \notin seen_players
                    /\ Len(clean_name) >= 2
                    /\ StartsUpper(clean_name)
                    /\ ~HoldsDeniedWord(clean_name)
                 THEN Append(players, [number |-> Str(i), name |-> clean_name])
                 ELSE players)

\* fetch_live_roster without the test of the player list
FetchLiveRosterUntested(team_url, page, t) ==
    IF page = None THEN None
    ELSE Some([team_url |-> team_url,
               team_name |-> ParseTeamTitle(page[1].captures, 1, "Unknown Team"),
               players |-> CleanPlayers(page[1].player_matches, 1, << >>),
               scraped_at |-> IsoFormat(t),
               authentic_data |-> TRUE,
               method |-> "live_web_scraping"])

\* fetch_live_roster(team_url): page is None when curl fails, times out or
\* prints nothing
FetchLiveRoster(team_url, page, t) ==
    IF page = None THEN None
    ELSE LET team_name == ParseTeamTitle(page[1].captures, 1, "Unknown Team")
             players == CleanPlayers(page[1].player_matches, 1, << >>)
         IN  IF players # << >>
             THEN Some([team_url |-> team_url, team_name |-> team_name,
                        players |-> players, scraped_at |-> IsoFormat(t),
                        authentic_data |-> TRUE,
                        method |-> "live_web_scraping"])
             ELSE None

\* the request fetch_live_roster sends
FetchEvent(team_url) == [kind |-> "fetch", team_url |-> team_url]

\* import_roster_for_team that goes on to the next match when the fetch for
\* the best one fails
ImportRosterEffectRetrying(table, rows, tournament_team_name, division, page, t) ==
    LET matches == SearchTeamsByName(table, rows, tournament_team_name, division)
        best_match == matches[1]
        live_roster == FetchLiveRoster(best_match.url, page, t)
        fetches == IF Len(matches) >= 2 /\ live_roster = None
                   THEN <<FetchEvent(best_match.url), FetchEvent(matches[2].url)>>
                   ELSE <<FetchEvent(best_match.url)>>
    IN  IF matches = << >>
        THEN [probes |-> << >>,
              result |-> [success |-> FALSE,
                          error |-> "No matching OBA teams found in database",
                          suggestion |-> "Try running team scanner to update database"]]
        ELSE IF live_roster = None
        THEN [probes |-> fetches,
              result |-> [success |-> FALSE,
                          error |-> "Could not fetch live roster data",
                          team_match |-> best_match]]
        ELSE [probes |-> fetches,
              result |-> [success |-> TRUE,
                          tournament_team |-> tournament_team_name,
                          oba_team |-> best_match,
                          roster_data |-> live_roster[1],
                          players_imported |-> Len(live_roster[1].players),
                          all_matches |-> matches]]

\* import_roster_for_team(tournament_team_name, division)
ImportRosterEffect(table, rows, tournament_team_name, division, page, t) ==
    LET matches == SearchTeamsByName(table, rows, tournament_team_name, division)
        best_match == matches[1]
        live_roster == FetchLiveRoster(best_match.url, page, t)
    IN  IF matches = << >>
        THEN [probes |-> << >>,
              result |-> [success |-> FALSE,
                          error |-> "No matching OBA teams found in database",
                          suggestion |-> "Try running team scanner to update database"]]
        ELSE IF live_roster = None
        THEN [probes |-> <<FetchEvent(best_match.url)>>,
              result |-> [success |-> FALSE,
                          error |-> "Could not fetch live roster data",
                          team_match |-> best_match]]
        ELSE [probes |-> <<FetchEvent(best_match.url)>>,
              result |-> [success |-> TRUE,
                          tournament_team |-> tournament_team_name,
                          oba_team |-> best_match,
                          roster_data |-> live_roster[1],
                          players_imported |-> Len(live_roster[1].players),
                          all_matches |-> matches]]

(* Actions of the resolver of EnhancedOBARosterSystem.                     *)

PlayerMatch(words, padded) == [words |-> words, padded |-> padded]

\* the pages curl brings back: none, one without a player link, one with
\* player links among navigation links
Pages ==
    { None,
      Some([captures |-> <<None, None, Some("Stats - Ontario Baseball Association")>>,
            player_matches |-> << >>]),
      Some([captures |-> <<Some("London Badgers 11U AAA"), None,
                           Some("Stats - Ontario Baseball Association")>>,
            player_matches |-> << PlayerMatch(<<"Skip", "To", "Content">>, FALSE),
                                  PlayerMatch(<<"John", "Smith">>, FALSE),
                                  PlayerMatch(<<"John", "Smith">>, TRUE),
                                  PlayerMatch(<<"Mike", "Brown">>, FALSE) >>]) }

\* the names and divisions callers pass to import_roster_for_team
ImportNames == { "London Badgers", "Essex Yellow Jackets" }
ImportDivisions == { "11U", "" }

\* the token_sort_ratio tables: just below the minimum by default, and at
\* most two pairs of a passed name and a stored name scored above it
StoredNames == { i.name : i \in TeamInfos(0) }
SortHotPairs == { <<Lower(q), Lower(n)>> : q \in ImportNames, n \in StoredNames }
SortHotScores == { MinMatchPercent + 1, 90 }
TokenSortTables ==
    { ScoreTable(MinMatchPercent, h) :
        h \in UNION { [S -> SortHotScores] :
                        S \in {{}} \cup { {p, q} : p, q \in SortHotPairs } } }

ImportRosterForTeam(tournament_team_name, division, page) ==
    LET e == ImportRosterEffect(scores.token_sort_ratio, team_database,
                                tournament_team_name, division, page, now)
    IN  /\ probes' = e.probes
        /\ ret' = [op |-> "import_roster_for_team",
                   team_name |-> tournament_team_name, division |-> division,
                   page |-> page, at |-> now, result |-> e.result]
        /\ UNCHANGED <<now, roster_cache, puts, oba_teams, team_database, scores>>

-----------------------------------------------------------------------------
(* Calls of generate_team_name_variations on its own.                      *)

\* a name passed to generate_team_name_variations has up to MaxWords words
MaxWords == 3

\* the words of those names: place and mascot words, a two-word mascot, the
\* separator and a division word
NameWords == { "Forest", "Falcons", "Blue", "Jays", "-", "11U" }

\* the names: every sequence of 1..MaxWords words
NameInputs == UNION { [1..n -> NameWords] : n \in 1..MaxWords }

\* the division hints: with 11U, with 13U, with neither, and none
DivisionInputs == { <<"11U">>, <<"13U", "Rep">>, <<"15U", "Rep">>, << >> }

\* a call that has its arguments and has not run yet
Pending(args) == [op |-> "pending", args |-> args]

\* the pending call runs
GenerateVariationsCall ==
    /\ ret.op = "pending"
    /\ ret' = [op |-> "generate_team_name_variations",
               team_name |-> ret.args.team_name,
               division |-> ret.args.division, at |-> now,
               result |-> GenerateTeamNameVariations(ret.args.team_name,
                                                     ret.args.division)]
    /\ probes' = << >>
    /\ UNCHANGED <<now, roster_cache, puts, oba_teams, team_database, scores>>

-----------------------------------------------------------------------------
(* parse_team_name of COBATeamScraper and COBAWebScraper.  Here a string   *)
(* is the sequence of its characters; "Senior" and "[Rep]" are kept as one *)
(* element each (no other element of the model spells a part of them).     *)
(* The regular expressions are computed position by position as re does.   *)

\* \w, \s and \d on the elements of a string
IsWordChar(c) == c \notin { " ", "-", "[Rep]" }
IsSpaceChar(c) == c = " "
IsDigitChar(c) == c \in { "0", "1", "2", "3", "4", "5", "6", "7", "8", "9" }

\* \b between the places i and i + 1 of s (0 and Len(s) are the two ends)
Boundary(s, i) ==
    LET w(k) == k >= 1 /\ k <= Len(s) /\ IsWordChar(s[k])
    IN  w(i) # w(i + 1)

\* the literal text stands at place p of s
MatchesAt(s, p, text) ==
    /\ p + Len(text) - 1 <= Len(s)
    /\ SubSeq(s, p, p + Len(text) - 1) = text

\* str.strip()
StripString(s) ==
    LET inked == { i \in DOMAIN s : ~IsSpaceChar(s[i]) }
        lo == CHOOSE i \in inked : \A j \in inked : i <= j
        hi == CHOOSE i \in inked : \A j \in inked : j <= i
    IN  IF inked = {} THEN << >> ELSE SubSeq(s, lo, hi)

\* re.sub(r'^\[Rep\]\s*', '', s)
RemoveRepPrefix(s) ==
    IF s # << >> /\ s[1] = "[Rep]"
    THEN LET after == { i \in 2..(Len(s) + 1) :
                          \A j \in 2..(i - 1) : IsSpaceChar(s[j]) }
             stop == CHOOSE i \in after : \A j \in after : j <= i
         IN  SubSeq(s, stop, Len(s))
    ELSE s

\* str.split(): the runs of characters between white space
RECURSIVE SplitWords(_)
SplitWords(s) ==
    LET t == StripString(s)
        gaps == { i \in DOMAIN t : IsSpaceChar(t[i]) }
        gap == CHOOSE i \in gaps : \A j \in gaps : i <= j
    IN  IF t = << >> THEN << >>
        ELSE IF gaps = {} THEN <<t>>
        ELSE <<SubSeq(t, 1, gap - 1)>> \o SplitWords(SubSeq(t, gap + 1, Len(t)))

\* ' '.join(parts)
RECURSIVE JoinWords(_)
JoinWords(parts) ==
    IF parts = << >> THEN << >>
    ELSE IF Len(parts) = 1 THEN parts[1]
    ELSE parts[1] \o <<" ">> \o JoinWords(SubSeq(parts, 2, Len(parts)))

\* r'\b(\d+U|Senior)\b' tried at place p: None or the text of group 1
DivisionMatchAt(s, p) ==
    IF ~Boundary(s, p - 1) THEN None
    ELSE IF IsDigitChar(s[p])
    THEN LET rest == { i \in p..(Len(s) + 1) :
                         \A j \in p..(i - 1) : IsDigitChar(s[j]) }
             q == CHOOSE i \in rest : \A j \in rest : j <= i
         IN  IF q <= Len(s) /\ s[q] = "U" /\ Boundary(s, q)
             THEN Some(SubSeq(s, p, q)) ELSE None
    ELSE IF s[p] = "Senior" /\ Boundary(s, p) THEN Some(<<"Senior">>)
    ELSE None

\* re.search(division_pattern, clean_name): the leftmost match
DivisionSearch(s) ==
    LET hits == { p \in DOMAIN s : DivisionMatchAt(s, p) # None }
    IN  IF hits = {} THEN None
        ELSE DivisionMatchAt(s, CHOOSE p \in hits : \A q \in hits : p <= q)

\* the alternatives of level_pattern, in their order
level_alternatives ==
    << <<"A", "A", "A">>, <<"A", "A">>, <<"A">>, <<"B">>, <<"C">>, <<"D">>,
       <<"D", "S">>, <<"H", "S">> >>

\* r'\b(AAA|AA|A|B|C|D|DS|HS)\b' tried at place p: the first alternative
\* that stands there and ends at a word boundary
LevelMatchAt(s, p) ==
    LET fits == { k \in DOMAIN level_alternatives :
                    /\ MatchesAt(s, p, level_alternatives[k])
                    /\ Boundary(s, p + Len(level_alternatives[k]) - 1) }
    IN  IF ~Boundary(s, p - 1) \/ fits = {} THEN None
        ELSE Some(level_alternatives[CHOOSE k \in fits : \A j \in fits : k <= j])

\* re.search(level_pattern, clean_name): the leftmost match
LevelSearch(s) ==
    LET hits == { p \in DOMAIN s : LevelMatchAt(s, p) # None }
    IN  IF hits = {} THEN None
        ELSE LevelMatchAt(s, CHOOSE p \in hits : \A q \in hits : p <= q)

\* re.match(rf'(.*?)\s+{re.escape(division)}', clean_name): the shortest
\* start of the name after which white space and the division text follow;
\* None when there is none, else group(1).strip()
OrganizationBefore(s, division) ==
    LET ends == { k \in 0..Len(s) :
                    \E j \in (k + 1)..Len(s) :
                        /\ \A i \in (k + 1)..j : IsSpaceChar(s[i])
                        /\ MatchesAt(s, j + 1, division) }
        k == CHOOSE e \in ends : \A f \in ends : e <= f
    IN  IF ends = {} THEN None ELSE Some(StripString(SubSeq(s, 1, k)))

\* ' '.join(parts[:2]) if len(parts) >= 2 else parts[0] if parts else None
FirstWords(parts) ==
    IF Len(parts) >= 2 THEN Some(JoinWords(SubSeq(parts, 1, 2)))
    ELSE IF parts # << >> THEN Some(parts[1])
    ELSE None

\* the try block from clean_name on
ParseCleanName(clean_name) ==
    LET division == DivisionSearch(clean_name)
        level == LevelSearch(clean_name)
    IN  [organization |->
             IF division # None THEN OrganizationBefore(clean_name, division[1])
             ELSE FirstWords(SplitWords(clean_name)),
         division |-> division,
         level |-> level]

\* what the except block returns
ParseFailed(team_name) ==
    [organization |-> team_name, division |-> None, level |-> None]

\* the outcome of a call that lets the exception through
Raised == [raised |-> TRUE]

\* a mutant of Guarded: no except block
Unguarded(is_str, body, team_name) == IF is_str THEN body ELSE Raised

\* try: body; except Exception: the fallback dict.  re.sub and str.strip
\* raise when team_name is not a string, and nothing else in the body raises
Guarded(is_str, body, team_name) ==
    IF is_str THEN body ELSE ParseFailed(team_name)

(* An argument of parse_team_name is Some(string), or None for a value     *)
(* that is not a string (an organization of None that is parsed again).    *)

\* COBATeamScraper.parse_team_name(team_name)
TeamParseTeamName(team_name) ==
    Guarded(team_name # None,
            ParseCleanName(StripString(RemoveRepPrefix(team_name[1]))),
            team_name)

\* COBAWebScraper.parse_team_name(team_name)
WebParseTeamName(team_name) ==
    Guarded(team_name # None,
            ParseCleanName(
                StripString(RemoveRepPrefix(StripString(team_name[1])))),
            team_name)

ParseTeamName(scraper, team_name) ==
    IF scraper = "COBATeamScraper" THEN TeamParseTeamName(team_name)
    ELSE WebParseTeamName(team_name)

(* Calls of parse_team_name.                                               *)

\* a name passed to parse_team_name has up to MaxChars elements
MaxChars == 5

\* its elements: a level letter, a digit, the age-group letter, another
\* letter, white space, and the two kept words
NameChars == { "A", "1", "U", "x", " ", "Senior", "[Rep]" }

ParseInputs ==
    { None } \cup
    { Some(s) : s \in UNION { [1..n -> NameChars] : n \in 0..MaxChars } }

Scrapers == { "COBATeamScraper", "COBAWebScraper" }

\* the pending call runs, and the organization it returns is parsed again
ParseTeamNameCall ==
    /\ ret.op = "pending"
    /\ LET result == ParseTeamName(ret.args.scraper, ret.args.team_name)
       IN  ret' = [op |-> "parse_team_name", scraper |-> ret.args.scraper,
                   team_name |-> ret.args.team_name, at |-> now,
                   result |-> result,
                   again |-> IF result = Raised THEN Raised
                             ELSE ParseTeamName(ret.args.scraper,
                                                result.organization)]
    /\ probes' = << >>
    /\ UNCHANGED <<now, roster_cache, puts, oba_teams, team_database, scores>>

-----------------------------------------------------------------------------
(* Calls of fetch_live_roster on its own.                                  *)

\* re.findall gives up to MaxMatches player names for a page
MaxMatches == 4

\* the names the player pattern can find: two capitalised words first, then
\* anything up to the closing bracket (more words, trailing white space)
MatchInputs ==
    { PlayerMatch(<<"John", "Smith">>, FALSE),
      PlayerMatch(<<"John", "Smith">>, TRUE),
      PlayerMatch(<<"Mike", "Brown", "jr">>, FALSE),
      PlayerMatch(<<"Skip", "To", "Content">>, FALSE),
      PlayerMatch(<<"John", "Skipper">>, FALSE),
      PlayerMatch(<<"Tournament", "Info">>, TRUE) }

MatchLists == UNION { [1..n -> MatchInputs] : n \in 0..MaxMatches }

\* what the three team-name patterns capture on a page: each nothing, a
\* team name of its own, or the title of the site
CaptureInputs ==
    { <<h1, heading, title>> :
        h1 \in { None, Some("London Badgers 11U AAA"),
                 Some("Stats - Ontario Baseball Association") },
        heading \in { None, Some("London Badgers"),
                      Some("Stats - Ontario Baseball Association") },
        title \in { None, Some("London Badgers - Team Stats"),
                    Some("Stats - Ontario Baseball Association") } }

\* the pages curl brings back for one URL: none at all, or a page
FetchPages ==
    { None } \cup
    { Some([captures |-> c, player_matches |-> l]) :
        c \in CaptureInputs, l \in MatchLists }

\* the pending call runs
FetchLiveRosterCall ==
    /\ ret.op = "pending"
    /\ ret' = [op |-> "fetch_live_roster", team_url |-> ret.args.team_url,
               page |-> ret.args.page, at |-> now,
               result |-> FetchLiveRoster(ret.args.team_url, ret.args.page, now)]
    /\ probes' = <<FetchEvent(ret.args.team_url)>>
    /\ UNCHANGED <<now, roster_cache, puts, oba_teams, team_database, scores>>

-----------------------------------------------------------------------------
(* OBARosterService.  Its collaborator (self.scraper, a DirectOBAScraper,  *)
(* and the HTTP session of it) is outside: a call of it either raises with *)
(* a message or returns a value.  A dict is a record, and reading a key it *)
(* lacks raises KeyError.  A formatted message is the sequence of its      *)
(* parts.                                                                  *)

\* the two outcomes of a call
Raise(message) == [raised |-> TRUE, message |-> message]
Returned(value) == [raised |-> FALSE, value |-> value]

\* d[key] for every dict of a list: the first key that is missing, if any
MissingKey(dicts, keys) ==
    LET missing == { <<i, k>> \in (DOMAIN dicts) \X keys : k \notin DOMAIN dicts[i] }
    IN  IF missing = {} THEN None
        ELSE LET first == CHOOSE m \in missing :
                              \A n \in missing : m[1] <= n[1]
             IN  Some(first[2])

\* a handler that lets the exception through
Reraising(outcome, prefix) ==
    IF outcome.raised THEN Raised ELSE outcome.value

\* try: ... return value; except Exception as e: return {'success': False,
\* 'error': f'<prefix>: {str(e)}'}
Try(outcome, prefix) ==
    IF outcome.raised
    THEN [success |-> FALSE, error |-> <<prefix, outcome.message>>]
    ELSE outcome.value

\* the first five of a list
FirstFive(list) == SubSeq(list, 1, IF Len(list) < 5 THEN Len(list) ELSE 5)

\* the teams search_teams hands to the front end
FormatFound(teams) ==
    [i \in DOMAIN teams |->
        [id |-> teams[i].team_id, name |-> teams[i].team_name,
         affiliate |-> teams[i].affiliate, ageGroup |-> teams[i].age_group,
         confidence |-> teams[i].confidence]]

\* the body of search_teams: populate is the outcome of the adds of
\* _populate_common_teams, found that of find_teams_by_name
SearchTeamsBody(team_name, populate, found) ==
    IF populate.raised THEN populate
    ELSE IF found.raised THEN found
    ELSE LET result == found.value
             teams == IF "teams" \in DOMAIN result THEN result.teams ELSE << >>
             available == IF "available_teams" \in DOMAIN result
                          THEN result.available_teams ELSE << >>
         IN  IF "success" \notin DOMAIN result THEN Raise("'success'")
             ELSE IF result.success /\ Len(teams) > 0
             THEN IF MissingKey(teams, {"team_id", "team_name", "affiliate",
                                        "age_group", "confidence"}) # None
                  THEN Raise("missing key of a team")
                  ELSE IF "search_term" \notin DOMAIN result
                  THEN Raise("'search_term'")
                  ELSE Returned([success |-> TRUE, teams |-> FormatFound(teams),
                                 searchTerm |-> result.search_term])
             ELSE Returned([success |-> FALSE,
                            error |-> <<"No teams found matching", team_name,
                                        "Available teams include",
                                        FirstFive(available)>>,
                            searchTerm |-> team_name])

\* search_teams(team_name)
SearchTeams(team_name, populate, found) ==
    Try(SearchTeamsBody(team_name, populate, found), "Service error")

\* the teams discover_teams_in_range reports: result.get('confidence', 0)
FormatScanned(results) ==
    [i \in DOMAIN results |->
        [id |-> results[i].team_id, name |-> results[i].team_name,
         status |-> results[i].status,
         confidence |-> IF "confidence" \in DOMAIN results[i]
                        THEN results[i].confidence ELSE 0]]

\* the body of discover_teams_in_range: scanned is the outcome of
\* scan_team_range
DiscoverBody(start_id, end_id, scanned) ==
    IF scanned.raised THEN scanned
    ELSE IF MissingKey(scanned.value, {"team_id", "team_name", "status"}) # None
    THEN Raise("missing key of a scan result")
    ELSE Returned([success |-> TRUE, teams |-> FormatScanned(scanned.value),
                   scanned_range |-> <<start_id, end_id>>])

\* discover_teams_in_range(start_id, end_id)
DiscoverTeamsInRange(start_id, end_id, scanned) ==
    Try(DiscoverBody(start_id, end_id, scanned), "Discovery error")

\* the teams get_cached_teams reports
FormatCached(teams) ==
    [i \in DOMAIN teams |->
        [id |-> teams[i].team_id, name |-> teams[i].team_name,
         affiliate |-> teams[i].affiliate, ageGroup |-> teams[i].age_group]]

\* the body of get_cached_teams: cached is the outcome of
\* scraper.get_cached_teams
CachedBody(cached) ==
    IF cached.raised THEN cached
    ELSE IF MissingKey(cached.value, {"team_id", "team_name", "affiliate",
                                      "age_group"}) # None
    THEN Raise("missing key of a cached team")
    ELSE Returned([success |-> TRUE, teams |-> FormatCached(cached.value)])

\* get_cached_teams()
GetCachedTeams(cached) == Try(CachedBody(cached), "Cache error")

\* the affiliates of the URL patterns extract_roster_for_team tries
patterns == << "2111", "2102", "2106" >>

\* next((t for t in teams if t['team_id'] == team_id), None) looks at the
\* teams in order: the place of the first team that has the id or lacks the
\* key, 0 for none
FirstWithId(teams, team_id) ==
    LET stops == { i \in DOMAIN teams :
                     "team_id" \notin DOMAIN teams[i] \/ teams[i].team_id = team_id }
    IN  IF stops = {} THEN 0 ELSE CHOOSE i \in stops : \A j \in stops : i <= j

\* the loop over patterns, from pattern i on: responses[i] is the outcome
\* of session.get for pattern i, cached[i] that of the get_cached_teams
\* that follows it
RECURSIVE ExtractFrom(_, _, _, _)
ExtractFrom(team_id, responses, cached, i) ==
    IF i > Len(patterns)
    THEN Returned([success |-> FALSE,
                   error |-> <<"No accessible roster found for this team">>])
    ELSE IF responses[i].raised THEN responses[i]
    ELSE IF responses[i].value.status_code = 200 /\ responses[i].value.has_roster
    THEN IF cached[i].raised THEN cached[i]
         ELSE LET teams == cached[i].value
                  place == FirstWithId(teams, team_id)
              IN  IF place = 0
                  THEN ExtractFrom(team_id, responses, cached, i + 1)
                  ELSE IF "team_id" \notin DOMAIN teams[place]
                  THEN Raise("'team_id'")
                  ELSE IF "team_name" \notin DOMAIN teams[place]
                  THEN Raise("'team_name'")
                  ELSE Returned([success |-> TRUE, team_id |-> team_id,
                                 team_name |-> teams[place].team_name,
                                 roster_url |-> <<patterns[i], team_id>>,
                                 message |-> "Roster URL found"])
    ELSE ExtractFrom(team_id, responses, cached, i + 1)

\* extract_roster_for_team(team_id)
ExtractRosterForTeam(team_id, responses, cached) ==
    Try(ExtractFrom(team_id, responses, cached, 1), "Roster extraction error")

(* Calls of OBARosterService.                                              *)

\* a list the collaborator returns has up to MaxListed dicts
MaxListed == 2

\* the dicts of those lists: two whole teams, and one without the keys
\* affiliate, age_group and confidence
ServiceTeams ==
    { [team_id |-> "500718", team_name |-> "11U HS Forest Glade",
       affiliate |-> "SPBA", age_group |-> "11U", confidence |-> 90],
      [team_id |-> "520001", team_name |-> "London Nationals 11U",
       affiliate |-> "LDBA", age_group |-> "11U", confidence |-> 45],
      [team_id |-> "520002", team_name |-> "London Nationals 13U"] }

TeamListInputs == UNION { [1..n -> ServiceTeams] : n \in 0..MaxListed }

\* the outcomes of the adds of _populate_common_teams
PopulateInputs == { Returned(None), Raise("disk I/O error") }

\* the outcomes of find_teams_by_name
FoundInputs ==
    { Raise("database is locked") } \cup
    { Returned([success |-> TRUE, teams |-> l, search_term |-> "London"]) :
        l \in TeamListInputs } \cup
    { Returned([success |-> TRUE, teams |-> l]) : l \in TeamListInputs } \cup
    { Returned([success |-> FALSE,
                available_teams |-> <<"11U HS Forest Glade">>]),
      Returned([success |-> FALSE]),
      Returned([teams |-> << >>]) }

\* the dicts scan_team_range returns: with and without a confidence, and
\* one without a status
ScanResults ==
    { [team_id |-> "500718", team_name |-> "11U HS Forest Glade",
       status |-> "found", confidence |-> 90],
      [team_id |-> "500719", team_name |-> "13U HS Forest Glade",
       status |-> "found"],
      [team_id |-> "500720", team_name |-> "Unknown"] }

\* the outcomes of scan_team_range
ScannedInputs ==
    { Raise("connection timed out") } \cup
    { Returned(l) : l \in UNION { [1..n -> ScanResults] : n \in 0..MaxListed } }

\* the outcomes of scraper.get_cached_teams
CachedInputs ==
    { Raise("database is locked") } \cup { Returned(l) : l \in TeamListInputs }

\* the outcomes of session.get(url, timeout=10)
ResponseInputs ==
    { Raise("read timed out"),
      Returned([status_code |-> 200, has_roster |-> TRUE]),
      Returned([status_code |-> 200, has_roster |-> FALSE]),
      Returned([status_code |-> 404, has_roster |-> TRUE]) }

\* the outcomes of get_cached_teams inside extract_roster_for_team
ExtractCachedInputs ==
    { Raise("database is locked"),
      Returned(<< >>),
      Returned(<<[team_id |-> "500718", team_name |-> "11U HS Forest Glade",
                  affiliate |-> "SPBA", age_group |-> "11U", confidence |-> 90]>>),
      Returned(<<[team_id |-> "500718"]>>),
      Returned(<<[team_name |-> "London Nationals 11U"],
                 [team_id |-> "500718", team_name |-> "11U HS Forest Glade",
                  affiliate |-> "SPBA", age_group |-> "11U", confidence |-> 90]>>) }

\* the calls of the service, with what the collaborator answers in them
ServiceCalls ==
    { [call |-> "search_teams", team_name |-> n, populate |-> p, found |-> f] :
        n \in { "London", "Forest Glade" }, p \in PopulateInputs,
        f \in FoundInputs } \cup
    { [call |-> "discover_teams_in_range", start_id |-> 500700,
       end_id |-> 500730, scanned |-> s] : s \in ScannedInputs } \cup
    { [call |-> "get_cached_teams", cached |-> c] : c \in CachedInputs } \cup
    { [call |-> "extract_roster_for_team", team_id |-> "500718",
       responses |-> r, cached |-> c] :
        r \in [DOMAIN patterns -> ResponseInputs],
        c \in [DOMAIN patterns -> ExtractCachedInputs] }

\* a pending call of the service runs
ServiceReturn(result) ==
    /\ ret' = [op |-> ret.args.call, args |-> ret.args, at |-> now,
               result |-> result]
    /\ probes' = << >>
    /\ UNCHANGED <<now, roster_cache, puts, oba_teams, team_database, scores>>

SearchTeamsCall ==
    /\ ret.op = "pending" /\ ret.args.call = "search_teams"
    /\ ServiceReturn(SearchTeams(ret.args.team_name, ret.args.populate,
                                 ret.args.found))

DiscoverTeamsInRangeCall ==
    /\ ret.op = "pending" /\ ret.args.call = "discover_teams_in_range"
    /\ ServiceReturn(DiscoverTeamsInRange(ret.args.start_id, ret.args.end_id,
                                          ret.args.scanned))

GetCachedTeamsCall ==
    /\ ret.op = "pending" /\ ret.args.call = "get_cached_teams"
    /\ ServiceReturn(GetCachedTeams(ret.args.cached))

ExtractRosterForTeamCall ==
    /\ ret.op = "pending" /\ ret.args.call = "extract_roster_for_team"
    /\ ServiceReturn(ExtractRosterForTeam(ret.args.team_id, ret.args.responses,
                                          ret.args.cached))

-----------------------------------------------------------------------------
(* Calls of scrape_roster for a run of team numbers.                       *)

\* scrape_roster is called for TeamNumberSpan team numbers in a row
TeamNumberSpan == 16

\* the URLs of those teams, and one without a team number
ScrapeUrls ==
    { TeamUrl("2111", n) :
        n \in DefaultTeamNumber..(DefaultTeamNumber + TeamNumberSpan - 1) }
    \cup { SlugUrl("tecumseh-eagles-15u") }

\* scrape_roster for the URL of the run: the first call, or one more
ScrapeRosterCall ==
    \/ ret.op = "pending" /\ ScrapeRoster(ret.args.team_url)
    \/ ret.op = "scrape_roster" /\ ScrapeRoster(ret.team_url)

-----------------------------------------------------------------------------
(* build_comprehensive_team_database of EnhancedOBARosterSystem.  What the *)
(* site serves is a world: the page of each team id that has one; every    *)
(* other id gives no page.                                                 *)

\* the affiliates and id ranges the scan goes through
scan_targets ==
    << [affiliate |-> "2106", name |-> "LDBA",
        ranges |-> << <<500400, 500450>>, <<503300, 503350>> >>],
       [affiliate |-> "2105", name |-> "ICBA",
        ranges |-> << <<499900, 499950>> >>],
       [affiliate |-> "2111", name |-> "SPBA",
        ranges |-> << <<500300, 500400>> >>],
       [affiliate |-> "0500", name |-> "ABA",
        ranges |-> << <<500750, 500850>> >>],
       [affiliate |-> "2100", name |-> "WOBA",
        ranges |-> << <<500500, 500600>> >>] >>

\* the step of range(start_id, end_id + 1, 5)
ScanStep == 5

\* list(range(start_id, end_id, step)): the end left out
RangeListOpen(start_id, end_id, step) ==
    IF end_id <= start_id THEN << >>
    ELSE [k \in 1..(((end_id - 1 - start_id) \div step) + 1) |->
             start_id + (step * (k - 1))]

\* list(range(start_id, end_id + 1, step))
RangeList(start_id, end_id, step) ==
    IF end_id < start_id THEN << >>
    ELSE [k \in 1..(((end_id - start_id) \div step) + 1) |->
             start_id + (step * (k - 1))]

\* the first div of ["11U", "13U", "15U", "18U"] with `div in team_name`,
\* for the page titles of the model
DivisionIn(team_name) ==
    CASE team_name = "London Badgers 11U AAA" -> "11U"
      [] team_name = "Essex Yellow Jackets 13U" -> "13U"
      [] OTHER -> "Unknown"

\* the first cls of ["AAA", "AA", "A", "HS", "DS", "Rep", "Select"] with
\* `cls in team_name`, for the page titles of the model ("A" is in
\* "Association")
ClassificationIn(team_name) ==
    CASE team_name = "London Badgers 11U AAA" -> "AAA"
      [] team_name = "Stats - Ontario Baseball Association" -> "A"
      [] OTHER -> "Unknown"

\* the page curl brings for a team id
PageAt(world, team_id) ==
    IF team_id \in DOMAIN world THEN world[team_id] ELSE None

\* the body of `for team_id in range(...)` for one team id: the team_info
\* that is appended and stored, None when the id is passed over
ScanOne(target, team_id, world, t) ==
    LET team_url == TeamUrl(target.affiliate, team_id)
        roster_data == FetchLiveRoster(team_url, PageAt(world, team_id), t)
    IN  IF roster_data # None /\ roster_data[1].team_name # "Unknown Team"
        THEN LET team_name == roster_data[1].team_name
             IN  Some(TeamInfo(team_id, team_name, DivisionIn(team_name),
                               ClassificationIn(team_name),
                               target.affiliate, target.name,
                               Len(roster_data[1].players), t))
        ELSE None

\* the ids the loops over the ranges of a target go through, in order
RECURSIVE ScanIds(_, _)
ScanIds(target, r) ==
    IF r > Len(target.ranges) THEN << >>
    ELSE RangeList(target.ranges[r][1], target.ranges[r][2], ScanStep) \o
         ScanIds(target, r + 1)

\* the requests sent for a target: one fetch_live_roster per id
ScanProbes(target) ==
    LET ids == ScanIds(target, 1)
    IN  [k \in DOMAIN ids |-> FetchEvent(TeamUrl(target.affiliate, ids[k]))]

\* affiliate_teams when the ranges of a target are done
AffiliateTeams(target, world, t) ==
    LET ids == ScanIds(target, 1)
        scanned == [k \in DOMAIN ids |-> ScanOne(target, ids[k], world, t)]
        found == SelectSeq(scanned, LAMBDA x : x # None)
    IN  [k \in DOMAIN found |-> found[k][1]]

\* the loop over scan_targets, from target g on: the requests sent, the
\* teams stored in that order, and all_teams as the list of (name,
\* affiliate_teams) in the order of its keys
RECURSIVE ScanTargets(_, _, _)
ScanTargets(g, world, t) ==
    IF g > Len(scan_targets)
    THEN [probes |-> << >>, stored |-> << >>, all_teams |-> << >>,
          total_discovered |-> 0]
    ELSE LET affiliate_teams == AffiliateTeams(scan_targets[g], world, t)
             rest == ScanTargets(g + 1, world, t)
         IN  [probes |-> ScanProbes(scan_targets[g]) \o rest.probes,
              stored |-> affiliate_teams \o rest.stored,
              all_teams |-> <<<<scan_targets[g].name, affiliate_teams>>>> \o
                            rest.all_teams,
              total_discovered |-> Len(affiliate_teams) + rest.total_discovered]

\* store_team_in_db for the teams found, from team k on
RECURSIVE StoreTeams(_, _, _)
StoreTeams(table, team_infos, k) ==
    IF k > Len(team_infos) THEN table
    ELSE StoreTeams(StoreTeamInDb(table, team_infos[k]), team_infos, k + 1)

\* build_comprehensive_team_database(): the table afterwards, the requests
\* sent and the dict that is written to team_db_file and returned
BuildEffect(table, world, t) ==
    LET scan == ScanTargets(1, world, t)
    IN  [table |-> StoreTeams(table, scan.stored, 1),
         probes |-> scan.probes,
         database |-> [affiliates |-> scan.all_teams,
                       total_teams |-> scan.total_discovered,
                       scan_date |-> IsoFormat(t), version |-> "2.0"]]

(* Calls of build_comprehensive_team_database.                             *)

\* at most MaxLive team ids have a page
MaxLive == 2

\* the ids that may have one: on the grid of a range, between two grid
\* points, at the shared end of two ranges, outside every range
LiveIds == { 500400, 500402, 500405, 503300, 499900, 400000 }

\* the pages: a team page with players, a page without a title, a page
\* with the title of the site only, a team page without players
ScanPages ==
    { Some([captures |-> <<Some("London Badgers 11U AAA"), None,
                           Some("Stats - Ontario Baseball Association")>>,
            player_matches |-> << PlayerMatch(<<"John", "Smith">>, FALSE),
                                  PlayerMatch(<<"Mike", "Brown">>, FALSE) >>]),
      Some([captures |-> <<None, None, None>>,
            player_matches |-> << PlayerMatch(<<"John", "Smith">>, FALSE) >>]),
      Some([captures |-> <<None, None,
                           Some("Stats - Ontario Baseball Association")>>,
            player_matches |-> << PlayerMatch(<<"John", "Smith">>, FALSE) >>]),
      Some([captures |-> <<Some("Essex Yellow Jackets 13U"), None, None>>,
            player_matches |-> << >>]) }

Worlds ==
    UNION { [S -> ScanPages] :
              S \in { T \in SUBSET LiveIds : Cardinality(T) <= MaxLive } }

\* the pending scan runs
BuildComprehensiveTeamDatabaseCall ==
    /\ ret.op = "pending"
    /\ LET e == BuildEffect(team_database, ret.args.world, now)
       IN  /\ team_database' = e.table
           /\ probes' = e.probes
           /\ ret' = [op |-> "build_comprehensive_team_database",
                      world |-> ret.args.world, at |-> now,
                      result |-> e.database]
    /\ UNCHANGED <<now, roster_cache, puts, oba_teams, scores>>

-----------------------------------------------------------------------------
(* confirm_and_get_roster of OBARosterScraper, after a match.              *)

\* confirm_and_get_roster(team_url): the table, the history of cache_roster
\* calls and the returned dict
ConfirmEffect(cache, p, team_url, t) ==
    LET e == ScrapeRosterEffect(cache, p, team_url, t)
        roster_data == e.result
    IN  [cache |-> e.cache, puts |-> e.puts,
         result |-> IF Truthy(roster_data)
                    THEN [success |-> TRUE, roster |-> roster_data[1]]
                    ELSE [success |-> FALSE,
                          error |-> "Failed to scrape roster from the page"]]

ConfirmAndGetRoster(team_url) ==
    LET e == ConfirmEffect(roster_cache, puts, team_url, now)
    IN  /\ roster_cache' = e.cache
        /\ puts' = e.puts
        /\ ret' = [op |-> "confirm_and_get_roster", team_url |-> team_url,
                   at |-> now, result |-> e.result]
        /\ probes' = << >>
        /\ UNCHANGED <<now, oba_teams, team_database, scores>>

\* the URLs a match can return for the queries: those of the test teams and
\* of the scraped pages
ConfirmUrls ==
    { Catalog11U("2111")[i].url : i \in DOMAIN Catalog11U("2111") } \cup
    { CatalogOther[i].url : i \in DOMAIN CatalogOther } \cup
    { e.url : e \in ScrapedEntries }

\* the fuzz.ratio tables: a default, and at most one pair scored apart
ConfirmTables ==
    { ScoreTable(d, h) :
        d \in DefaultScores,
        h \in UNION { [S -> HotScores] :
                        S \in {{}} \cup { {p} : p \in HotPairs } } }

-----------------------------------------------------------------------------
(* Calls of get_roster_with_fuzzy_match for every division.                *)

\* the affiliates callers pass: two of affiliate_map and one that is not
AffiliateInputs == { "Sun Parlour", "Windsor", "Halton" }

\* the fuzz.ratio tables: one score for every pair, below, at and above
\* the minimum
FlatTables == { ScoreTable(d, << >>) : d \in { 0 } \cup HotScores }

\* the pending call runs
FuzzyMatchCall ==
    /\ ret.op = "pending"
    /\ GetRosterWithFuzzyMatch(ret.args.affiliate, ret.args.division,
                               ret.args.team_name, ret.args.scraped)

-----------------------------------------------------------------------------
(* Specifications.                                                         *)

Init ==
    /\ now = 0
    /\ roster_cache = {}
    /\ puts = [k \in Urls |-> None]
    /\ ret = [op |-> "init"]
    /\ oba_teams = << >>
    /\ team_database = << >>
    /\ probes = << >>
    /\ scores = << >>

\* the roster cache and its callers
Next ==
    \/ Tick
    \/ \E k \in Urls : \E p \in Payloads(k, now) : CacheRoster(k, p)
    \/ \E k \in Urls : GetCachedRoster(k)
    \/ \E k \in Urls : ScrapeRoster(k)

Spec == Init /\ [][Next]_vars

\* the team registry and its scans
NextRegistry ==
    \/ now < MaxScanNow /\ Tick
    \/ \E teams \in TeamLists : \E resp \in [TeamIds -> Responses] :
          WebSave(teams, resp)
    \/ \E teams \in TeamLists : \E resp \in [TeamIds -> Responses] :
          TeamSave(teams, resp)

SpecRegistry == Init /\ [][NextRegistry]_vars

\* the fuzzy resolver, under every fuzz.ratio table
InitResolver ==
    /\ now = 0
    /\ roster_cache = {}
    /\ puts = [k \in Urls |-> None]
    /\ ret = [op |-> "init"]
    /\ oba_teams = << >>
    /\ team_database = << >>
    /\ probes = << >>
    /\ scores \in { [ratio |-> t, token_sort_ratio |-> ScoreTable(0, << >>)] :
                      t \in RatioTables }

NextResolver ==
    \E q \in Queries : \E scraped \in ScrapedMappings :
        GetRosterWithFuzzyMatch(q.affiliate, q.division, q.team_name, scraped)

SpecResolver == InitResolver /\ [][NextResolver]_vars

\* the resolver of EnhancedOBARosterSystem over a team_database that
\* store_team_in_db fills, under every token_sort_ratio table
InitImport ==
    /\ now = 0
    /\ roster_cache = {}
    /\ puts = [k \in Urls |-> None]
    /\ ret = [op |-> "init"]
    /\ oba_teams = << >>
    /\ team_database = << >>
    /\ probes = << >>
    /\ scores \in { [ratio |-> ScoreTable(0, << >>), token_sort_ratio |-> t] :
                      t \in TokenSortTables }

NextImport ==
    \/ \E team_info \in TeamInfos(now) : StoreTeam(team_info)
    \/ \E n \in ImportNames : \E d \in ImportDivisions : \E page \in Pages :
          ImportRosterForTeam(n, d, page)

SpecImport == InitImport /\ [][NextImport]_vars

\* one call of generate_team_name_variations, for every name and hint
InitVariations ==
    /\ now = 0
    /\ roster_cache = {}
    /\ puts = [k \in Urls |-> None]
    /\ ret \in { Pending([team_name |-> n, division |-> d]) :
                    n \in NameInputs, d \in DivisionInputs }
    /\ oba_teams = << >>
    /\ team_database = << >>
    /\ probes = << >>
    /\ scores = << >>

NextVariations == GenerateVariationsCall

SpecVariations == InitVariations /\ [][NextVariations]_vars


\* one call of parse_team_name, for every scraper and every name
InitParse ==
    /\ now = 0
    /\ roster_cache = {}
    /\ puts = [k \in Urls |-> None]
    /\ ret \in { Pending([scraper |-> c, team_name |-> n]) :
                    c \in Scrapers, n \in ParseInputs }
    /\ oba_teams = << >>
    /\ team_database = << >>
    /\ probes = << >>
    /\ scores = << >>

NextParse == ParseTeamNameCall

SpecParse == InitParse /\ [][NextParse]_vars


\* one call of fetch_live_roster, for every page
InitFetch ==
    /\ now = 0
    /\ roster_cache = {}
    /\ puts = [k \in Urls |-> None]
    /\ ret \in { Pending([team_url |-> TeamUrl("2106", 500400), page |-> p]) :
                    p \in FetchPages }
    /\ oba_teams = << >>
    /\ team_database = << >>
    /\ probes = << >>
    /\ scores = << >>

NextFetch == FetchLiveRosterCall

SpecFetch == InitFetch /\ [][NextFetch]_vars


\* one call of OBARosterService, for every answer of its collaborator
InitService ==
    /\ now = 0
    /\ roster_cache = {}
    /\ puts = [k \in Urls |-> None]
    /\ ret \in { Pending(c) : c \in ServiceCalls }
    /\ oba_teams = << >>
    /\ team_database = << >>
    /\ probes = << >>
    /\ scores = << >>

NextService ==
    \/ SearchTeamsCall
    \/ DiscoverTeamsInRangeCall
    \/ GetCachedTeamsCall
    \/ ExtractRosterForTeamCall

SpecService == InitService /\ [][NextService]_vars


\* scrape_roster again and again for one URL, for every URL of ScrapeUrls
InitScrape ==
    /\ now = 0
    /\ roster_cache = {}
    /\ puts = [k \in ScrapeUrls |-> None]
    /\ ret \in { Pending([team_url |-> u]) : u \in ScrapeUrls }
    /\ oba_teams = << >>
    /\ team_database = << >>
    /\ probes = << >>
    /\ scores = << >>

NextScrape == Tick \/ ScrapeRosterCall

SpecScrape == InitScrape /\ [][NextScrape]_vars


\* one scan of build_comprehensive_team_database, in every world
InitScan ==
    /\ now = 0
    /\ roster_cache = {}
    /\ puts = [k \in Urls |-> None]
    /\ ret \in { Pending([world |-> w]) : w \in Worlds }
    /\ oba_teams = << >>
    /\ team_database = << >>
    /\ probes = << >>
    /\ scores = << >>

NextScan == BuildComprehensiveTeamDatabaseCall

SpecScan == InitScan /\ [][NextScan]_vars


\* matches, and the confirmation of the match just returned
InitConfirm ==
    /\ now = 0
    /\ roster_cache = {}
    /\ puts = [k \in ConfirmUrls |-> None]
    /\ ret = [op |-> "init"]
    /\ oba_teams = << >>
    /\ team_database = << >>
    /\ probes = << >>
    /\ scores \in { [ratio |-> t, token_sort_ratio |-> ScoreTable(0, << >>)] :
                      t \in ConfirmTables }

NextConfirm ==
    \/ \E q \in Queries : \E scraped \in ScrapedMappings :
          GetRosterWithFuzzyMatch(q.affiliate, q.division, q.team_name, scraped)
    \/ /\ ret.op = "get_roster_with_fuzzy_match"
       /\ ret.result.success
       /\ ConfirmAndGetRoster(ret.result.team_url)

SpecConfirm == InitConfirm /\ [][NextConfirm]_vars


\* one call of get_roster_with_fuzzy_match, for every affiliate, division
\* and scraped mapping
InitDivision ==
    /\ now = 0
    /\ roster_cache = {}
    /\ puts = [k \in Urls |-> None]
    /\ ret \in { Pending([affiliate |-> a, division |-> d,
                          team_name |-> q.team_name, scraped |-> s]) :
                    a \in AffiliateInputs, d \in DivisionInputs, q \in Queries,
                    s \in ScrapedMappings }
    /\ oba_teams = << >>
    /\ team_database = << >>
    /\ probes = << >>
    /\ scores \in { [ratio |-> t, token_sort_ratio |-> ScoreTable(0, << >>)] :
                      t \in FlatTables }

NextDivision == FuzzyMatchCall

SpecDivision == InitDivision /\ [][NextDivision]_vars


-----------------------------------------------------------------------------
(* Claims about the roster cache.                                          *)

\* the rows stored under a key
RowsOf(cache, k) == { r \in cache : r.team_url = k }

\* whether the last cache_roster call for k lies less than 24 hours before t
PutIsFresh(p, k, t) ==
    p[k] # None /\ t - p[k][1].cached_at < cache_duration_hours

\* C1: get_cached_roster(k) returns the payload of the most recent
\* cache_roster(k, p) exactly when such a call was made and less than 24
\* hours have passed since; otherwise (no record, or 24 hours or more, the
\* boundary included) it returns None.
C1_GetReturnsFreshPayload ==
    ret.op = "get_cached_roster" =>
        ret.result = IF PutIsFresh(puts, ret.team_url, ret.at)
                     THEN Some(puts[ret.team_url][1].payload)
                     ELSE None

\* C1 witness: a get exactly 24 hours after the put found the record stale
C1_Witness ==
    /\ ret.op = "get_cached_roster"
    /\ puts[ret.team_url] # None
    /\ ret.at - puts[ret.team_url][1].cached_at = cache_duration_hours
    /\ ret.result = None
    /\ RowsOf(roster_cache, ret.team_url) # {}

\* C2: the cache holds at most one record per key, and that record carries
\* the payload and the time of the last cache_roster call for the key.
C2_OneRecordPerKey ==
    \A k \in Urls :
        /\ Cardinality(RowsOf(roster_cache, k)) <= 1
        /\ (puts[k] = None) <=> (RowsOf(roster_cache, k) = {})
        /\ \A r \in RowsOf(roster_cache, k) :
            /\ JsonLoads(r.roster_data) = puts[k][1].payload
            /\ FromIsoFormat(r.timestamp) = puts[k][1].cached_at

\* C2 witness: a cache_roster call has overwritten an older record with a
\* payload that differs from the one a fresh scrape would have produced
C2_Witness ==
    /\ ret.op = "cache_roster"
    /\ ret.existed
    /\ ret.at > 0
    /\ \E r \in RowsOf(roster_cache, ret.team_url) :
        /\ FromIsoFormat(r.timestamp) = ret.at
        /\ JsonLoads(r.roster_data).scraped_at # r.timestamp

\* C3: no operation removes a record (the set of keys never shrinks), and
\* get_cached_roster leaves the table as it was, also when the record is stale.
C3_NeverEvicts ==
    [][ /\ CacheKeys(roster_cache) \subseteq CacheKeys(roster_cache')
        /\ (ret'.op = "get_cached_roster" /\ now' = now)
               => roster_cache' = roster_cache ]_vars

\* C3 witness: a get that found a stale record, which is still stored
C3_Witness ==
    /\ ret.op = "get_cached_roster"
    /\ ret.result = None
    /\ \E r \in RowsOf(roster_cache, ret.team_url) :
        ret.at - FromIsoFormat(r.timestamp) > cache_duration_hours

\* C4: scrape_roster(url) returns the cached payload and writes nothing when a
\* fresh record exists (cached_at stays); otherwise it builds a new roster,
\* stores it under url with cached_at = now and returns it.
C4_ScrapeConsultsCache ==
    [][ (ret'.op = "scrape_roster" /\ now' = now) =>
          LET k == ret'.team_url
          IN  IF PutIsFresh(puts, k, now)
              THEN /\ ret'.result = Some(puts[k][1].payload)
                   /\ roster_cache' = roster_cache
                   /\ puts' = puts
              ELSE /\ ret'.result # None
                   /\ ret'.result[1].team_url = k
                   /\ ret'.result[1].scraped_at = IsoFormat(now)
                   /\ \A r \in RowsOf(roster_cache', k) :
                        /\ JsonLoads(r.roster_data) = ret'.result[1]
                        /\ FromIsoFormat(r.timestamp) = now
                   /\ Cardinality(RowsOf(roster_cache', k)) = 1
                   /\ \A j \in Urls \ {k} :
                        RowsOf(roster_cache', j) = RowsOf(roster_cache, j) ]_vars

\* C4 witness: a scrape answered from the cache some time after the record
\* was written, and the record still carries the older cached_at
C4_Witness ==
    /\ ret.op = "scrape_roster"
    /\ ret.result # None
    /\ \E r \in RowsOf(roster_cache, ret.team_url) :
        /\ FromIsoFormat(r.timestamp) < ret.at
        /\ JsonLoads(r.roster_data) = ret.result[1]


-----------------------------------------------------------------------------
(* Claims about the team registry.                                         *)

\* the team ids of a list of team dicts
IdsOf(teams) == { teams[i].team_id : i \in DOMAIN teams }

\* the last dict of the list that carries the team id
LastOf(teams, id) ==
    LET at == { i \in DOMAIN teams : teams[i].team_id = id }
    IN  teams[CHOOSE i \in at : \A j \in at : j <= i]

\* the probe requests sent for a team id
ProbesFor(events, id) ==
    { k \in DOMAIN events : events[k].kind = "probe" /\ events[k].team_id = id }

\* C5: after a registry save, every team id of the saved list has exactly one
\* stored record, and it carries the team_name saved last for that id (saving
\* t as n1 and later t as n2 leaves one record named n2).
C5_SecondNameStored ==
    /\ ret.op \in {"web_save", "team_save"} =>
          \A id \in IdsOf(ret.teams) :
              /\ Cardinality(RowsWithId(oba_teams, id)) = 1
              /\ \A i \in RowsWithId(oba_teams, id) :
                    oba_teams[i].team_name = LastOf(ret.teams, id).team_name
    /\ ret.op = "store_team_in_db" =>
          LET rows == { i \in DOMAIN team_database :
                            team_database[i].team_id = ret.teams[1].id }
          IN  /\ Cardinality(rows) = 1
              /\ \A i \in rows : team_database[i].team_name = ret.teams[1].name

\* C6: COBAWebScraper.save_teams_to_database inserts an unknown team_id with
\* is_active = true; for a known team_id it overwrites team_name, organization,
\* division, level, affiliate, is_active and last_scanned, keeps has_roster
\* and player_count, and sends no roster-availability request for it.
C6_WebSaveUpsert ==
    [][ (ret'.op = "web_save" /\ now' = now) =>
          \A id \in IdsOf(ret'.teams) :
            LET team == LastOf(ret'.teams, id)
                old == RowsWithId(oba_teams, id)
                new == RowsWithId(oba_teams', id)
            IN  /\ Cardinality(new) = 1
                /\ \A j \in new :
                    LET r == oba_teams'[j]
                    IN  /\ r.is_active = TRUE
                        /\ IF old = {}
                           THEN Cardinality(ProbesFor(probes', id)) = 1
                           ELSE /\ ProbesFor(probes', id) = {}
                                /\ r.team_name = team.team_name
                                /\ r.organization = team.organization
                                /\ r.division = team.division
                                /\ r.level = team.level
                                /\ r.affiliate = team.affiliate
                                /\ r.last_scanned = Some(now)
                                /\ \A i \in old :
                                    /\ r.has_roster = oba_teams[i].has_roster
                                    /\ r.player_count = oba_teams[i].player_count
      ]_vars

\* C6 witness: a save of one known team, some time after it was inserted with
\* a roster: no request was sent, the row was rescanned and kept its roster
C6_Witness ==
    /\ ret.op = "web_save"
    /\ Len(ret.teams) = 1
    /\ ret.at > 0
    /\ ret.result = 1
    /\ probes = << >>
    /\ \E i \in RowsWithId(oba_teams, ret.teams[1].team_id) :
        /\ oba_teams[i].last_scanned = Some(ret.at)
        /\ oba_teams[i].team_name = ret.teams[1].team_name
        /\ oba_teams[i].has_roster
        /\ oba_teams[i].player_count = 15

\* C7: a scan never deletes a team record, and a stored team that the scan's
\* list does not contain has is_active = false once the scan is complete.
C7_MissingTeamsDeactivated ==
    [][ (ret'.op \in {"web_save", "team_save"} /\ now' = now /\ ret'.teams # << >>) =>
          \A i \in DOMAIN oba_teams :
            LET id == oba_teams[i].team_id
            IN  /\ RowsWithId(oba_teams', id) # {}
                /\ id \notin IdsOf(ret'.teams) =>
                      \A j \in RowsWithId(oba_teams', id) :
                          oba_teams'[j].is_active = FALSE
      ]_vars

-----------------------------------------------------------------------------
(* Claims about the fuzzy resolver.                                        *)

\* the (variation, candidate) pairs of a call, by their positions
PairsOf(call) == (DOMAIN call.name_variations) \X (DOMAIN call.teams)

\* the fuzz.ratio of the pair p of a call
PairScore(call, p) ==
    Ratio(scores.ratio, call.name_variations[p[1]], call.teams[p[2]].name)

\* the highest score over all the pairs of a call
MaxScore(call) ==
    LET all == { PairScore(call, p) : p \in PairsOf(call) }
    IN  CHOOSE m \in all : \A s \in all : s <= m

\* the pairs of a call that reach the highest score
TopPairs(call) ==
    LET m == MaxScore(call)
    IN  { p \in PairsOf(call) : PairScore(call, p) = m }

\* C8: get_roster_with_fuzzy_match returns success = true if and only if the
\* highest score over all (generated variation, candidate name) pairs is at
\* least 60; the confidence it then reports is that highest score and the
\* reported matched_team reaches it; below 60 it returns success = false
\* and no match.
C8_SuccessIffMaxAtLeast60 ==
    ret.op = "get_roster_with_fuzzy_match" =>
        LET m == MaxScore(ret)
        IN  /\ ret.name_variations =
                    GenerateTeamNameVariations(ret.team_name, ret.division)
            /\ ret.result.success <=> m >= 60
            /\ ret.result.success =>
                  /\ ret.result.confidence = m
                  /\ \E p \in PairsOf(ret) :
                        /\ PairScore(ret, p) = m
                        /\ ret.teams[p[2]].name = ret.result.matched_team
            /\ ~ret.result.success =>
                  DOMAIN ret.result \cap
                      {"matched_team", "team_url", "confidence"} = {}

\* C8 witness: a match of exactly 60, found by a later variation for a
\* candidate that is not the first of the mapping
C8_Witness ==
    /\ ret.op = "get_roster_with_fuzzy_match"
    /\ ret.result.success
    /\ ret.result.confidence = 60
    /\ ret.result.search_term # ret.team_name
    /\ ret.result.matched_team # ret.teams[1].name

\* the names of the stored teams import_roster_for_team searches for a
\* division: the candidates of the call
CandidateNames(rows, division) ==
    LET fetched == SelectSeq(rows, LAMBDA r : division = "" \/ r.division = division)
    IN  [i \in DOMAIN fetched |-> fetched[i].team_name]

\* the candidate list a failure result carries: none without the field
AvailableTeams(result) ==
    IF "available_teams" \in DOMAIN result THEN result.available_teams
    ELSE << >>

\* C9: when get_roster_with_fuzzy_match or import_roster_for_team returns
\* success = false because no candidate met the confidence floor, the result
\* carries the list of all the available candidate names, and it is not
\* empty.
C9_FailureListsCandidates ==
    /\ (ret.op = "get_roster_with_fuzzy_match" /\ ~ret.result.success) =>
          /\ AvailableTeams(ret.result) # << >>
          /\ AvailableTeams(ret.result) = Keys(ret.teams)
    /\ (/\ ret.op = "import_roster_for_team"
        /\ ~ret.result.success
        /\ "team_match" \notin DOMAIN ret.result
        /\ CandidateNames(team_database, ret.division) # << >>) =>
          /\ AvailableTeams(ret.result) # << >>
          /\ AvailableTeams(ret.result) =
                CandidateNames(team_database, ret.division)

\* C10: when several (variation, candidate) pairs share the highest score,
\* get_roster_with_fuzzy_match returns the pair with the variation generated
\* first and, of the candidates tied for that variation, the one that comes
\* first in the candidate mapping; search_term is that variation.
C10_FirstVariationFirstCandidate ==
    (ret.op = "get_roster_with_fuzzy_match" /\ ret.result.success) =>
        LET top == TopPairs(ret)
            first == CHOOSE p \in top :
                        \A q \in top : p[1] < q[1] \/ (p[1] = q[1] /\ p[2] <= q[2])
        IN  /\ ret.result.search_term = ret.name_variations[first[1]]
            /\ ret.result.matched_team = ret.teams[first[2]].name
            /\ ret.result.team_url = ret.teams[first[2]].url

\* C10 witness: two pairs share the highest score, one with a later
\* variation and an earlier candidate than the other, and the pair returned
\* is neither of the first variation nor of the first candidate
C10_Witness ==
    /\ ret.op = "get_roster_with_fuzzy_match"
    /\ ret.result.success
    /\ ret.result.search_term # ret.team_name
    /\ ret.result.matched_team # ret.teams[1].name
    /\ \E p, q \in TopPairs(ret) : p[1] < q[1] /\ q[2] < p[2]

-----------------------------------------------------------------------------
(* Claims about generate_team_name_variations.                             *)

\* the part of the query before " - ", with one trailing mascot cut off
BaseOf(team_name) ==
    LET base_name == SplitAtDash(team_name)
    IN  IF StripSuffix(base_name) = None THEN base_name
        ELSE StripSuffix(base_name)[1]

\* the list holds the string
Contains(list, v) == \E i \in DOMAIN list : list[i] = v

\* C11: for every query name and every non-empty division hint, the list
\* generate_team_name_variations returns holds "{division} {base}",
\* "{base} {division}", "{division} HS {base}" and "{base}", with base the
\* part of the query before " - " less one trailing mascot suffix.
C11_DivisionFormatsGenerated ==
    (ret.op = "generate_team_name_variations" /\ ret.division # << >>) =>
        LET base == BaseOf(ret.team_name)
        IN  /\ Contains(ret.result, ret.division \o base)
            /\ Contains(ret.result, base \o ret.division)
            /\ Contains(ret.result, ret.division \o <<"HS">> \o base)
            /\ Contains(ret.result, base)

\* the place of the first occurrence of v in the list
FirstAt(list, v) ==
    CHOOSE i \in DOMAIN list : list[i] = v /\ \A j \in 1..(i - 1) : list[j] # v

\* C12: the list generate_team_name_variations returns never holds a string
\* twice, starts with the raw query, holds every generated variation, and
\* keeps the variations in the order in which each was generated first.
C12_UniqueInFirstSeenOrder ==
    ret.op = "generate_team_name_variations" =>
        LET raw == RawVariations(ret.team_name, ret.division)
            out == ret.result
        IN  /\ \A i, j \in DOMAIN out : out[i] = out[j] => i = j
            /\ out[1] = ret.team_name
            /\ { out[i] : i \in DOMAIN out } = { raw[i] : i \in DOMAIN raw }
            /\ \A i, j \in DOMAIN out :
                  i < j => FirstAt(raw, out[i]) < FirstAt(raw, out[j])

\* C12 witness: a call with an 11U hint whose generated list repeated a
\* variation after others had come in between
C12_Witness ==
    /\ ret.op = "generate_team_name_variations"
    /\ Has(ret.division, "11U")
    /\ Len(ret.result) >= 5
    /\ LET raw == RawVariations(ret.team_name, ret.division)
       IN  \E i, j \in DOMAIN raw :
              i + 1 < j /\ raw[i] = raw[j] /\ raw[i + 1] # raw[i]

-----------------------------------------------------------------------------
(* Claims about parse_team_name.                                           *)

\* the call parsed a string
ParsedString == ret.op = "parse_team_name" /\ ret.team_name # None

\* the name as the scraper cleans it before it looks for tokens
CleanNameOf(call) ==
    IF call.scraper = "COBATeamScraper"
    THEN StripString(RemoveRepPrefix(call.team_name[1]))
    ELSE StripString(RemoveRepPrefix(StripString(call.team_name[1])))

\* the text stands at place p of s as a whole word
TokenAt(s, p, text) ==
    /\ MatchesAt(s, p, text)
    /\ Boundary(s, p - 1)
    /\ Boundary(s, p + Len(text) - 1)

\* C13: for every team name that contains the token "AAA", parse_team_name
\* returns level "AAA", whatever other level tokens the name holds and
\* wherever they stand.
C13_AAAPreferred ==
    (/\ ParsedString
     /\ \E p \in DOMAIN ret.team_name[1] :
            TokenAt(ret.team_name[1], p, <<"A", "A", "A">>)) =>
        ret.result.level = Some(<<"A", "A", "A">>)

\* the place where the division the call returned stands first as a token
DivisionPlace(call) ==
    LET s == CleanNameOf(call)
        at == { p \in DOMAIN s : TokenAt(s, p, call.result.division[1]) }
    IN  CHOOSE p \in at : \A q \in at : p <= q

\* C14: for every team name in which a division token is found, also one
\* that begins with it, parse_team_name returns as organization the text
\* before that division token with the white space around it trimmed.
C14_OrganizationPrecedesDivision ==
    (ParsedString /\ ret.result.division # None) =>
        ret.result.organization =
            Some(StripString(SubSeq(CleanNameOf(ret), 1, DivisionPlace(ret) - 1)))

\* the division tokens: one or two digits and "U", or "Senior"
DivisionTokens ==
    { <<d, "U">> : d \in { "1" } } \cup
    { <<d, e, "U">> : d \in { "1" }, e \in { "1" } } \cup
    { <<"Senior">> }

\* C15: parse_team_name returns a division only when the name holds a token
\* of one or two digits followed by "U", or the token "Senior", and the
\* division returned is the leftmost of these tokens.
C15_DivisionIsLeftmostToken ==
    (ParsedString /\ ret.result.division # None) =>
        LET s == CleanNameOf(ret)
            at == { p \in DOMAIN s : \E d \in DivisionTokens : TokenAt(s, p, d) }
        IN  /\ at # {}
            /\ TokenAt(s, CHOOSE p \in at : \A q \in at : p <= q,
                       ret.result.division[1])
            /\ ret.result.division[1] \in DivisionTokens

\* C16: for every name without a division token, with or without leading
\* bracketed tags and of any number of words, parsing the organization that
\* parse_team_name returned gives that organization again.
C16_OrganizationIdempotent ==
    (ParsedString /\ ret.result.division = None) =>
        /\ ret.again # Raised
        /\ ret.again.organization = ret.result.organization

\* C17: parse_team_name lets no exception through: a call whose parsing
\* fails inside returns the raw input as organization with division and
\* level None.
C17_NeverRaises ==
    ret.op = "parse_team_name" =>
        /\ ret.result # Raised
        /\ ret.again # Raised
        /\ ret.team_name = None => ret.result = ParseFailed(ret.team_name)
        /\ ret.result.organization = None => ret.again = ParseFailed(None)

\* C17 witness: a name of white space only has no organization, and parsing
\* that organization again fails inside and returns the fallback
C17_Witness ==
    /\ ParsedString
    /\ ret.team_name[1] # << >>
    /\ ret.result.organization = None
    /\ ret.again = [organization |-> None, division |-> None, level |-> None]

\* the scraper that is not the one of the call
OtherScraper(scraper) ==
    IF scraper = "COBATeamScraper" THEN "COBAWebScraper" ELSE "COBATeamScraper"

\* C30: the two parse_team_name implementations are equivalent: for every
\* string, white space before a "[Rep]" tag included, COBATeamScraper and
\* COBAWebScraper return the same organization, division and level.
C30_ParsersAgree ==
    ParsedString =>
        LET other == ParseTeamName(OtherScraper(ret.scraper), ret.team_name)
        IN  /\ ret.result.organization = other.organization
            /\ ret.result.division = other.division
            /\ ret.result.level = other.level

-----------------------------------------------------------------------------
(* Claims about fetch_live_roster.                                         *)

\* fetch_live_roster ran on a page that curl delivered
FetchedPage == ret.op = "fetch_live_roster" /\ ret.page # None

\* a candidate name is kept: two words or more, an upper-case start, no
\* denied word
Kept(name) ==
    /\ Len(name) >= 2
    /\ StartsUpper(name)
    /\ ~HoldsDeniedWord(name)

\* the candidates of a page (white space around them dropped) that are
\* kept, each once, in the order of the page
Survivors(page) ==
    LET names == [i \in DOMAIN page.player_matches |->
                     Strip(page.player_matches[i])]
    IN  Unique(SelectSeq(names, Kept))

\* the player names of a result, none for a null result
NamesOf(result) ==
    IF result = None THEN << >>
    ELSE [k \in DOMAIN result[1].players |-> result[1].players[k].name]

\* C18: the players fetch_live_roster returns are the candidate names with
\* two or more words, an upper-case start and no denied word (skip, content,
\* tournament), each once (the first occurrence) and in the order of the
\* input; so the player names of a roster are pairwise different.
C18_PlayersAreKeptCandidates ==
    FetchedPage =>
        /\ NamesOf(ret.result) = Survivors(ret.page[1])
        /\ \A i, j \in DOMAIN NamesOf(ret.result) :
              NamesOf(ret.result)[i] = NamesOf(ret.result)[j] => i = j

\* C18 witness: a roster of two players from a page that also had a repeated
\* name and a name with a denied word
C18_Witness ==
    /\ FetchedPage
    /\ Len(NamesOf(ret.result)) = 2
    /\ \E i \in DOMAIN ret.page[1].player_matches :
          HoldsDeniedWord(Strip(ret.page[1].player_matches[i]))
    /\ \E i, j \in DOMAIN ret.page[1].player_matches :
          /\ i < j
          /\ Kept(Strip(ret.page[1].player_matches[i]))
          /\ Strip(ret.page[1].player_matches[i]) =
                Strip(ret.page[1].player_matches[j])

\* C19: the k-th player of a roster fetch_live_roster returns has the number
\* str(k): a roster of n players carries the numbers "1".."n" in order,
\* whatever candidates were dropped before or between them.
C19_NumberedOneToN ==
    (FetchedPage /\ ret.result # None) =>
        \A k \in DOMAIN ret.result[1].players :
            ret.result[1].players[k].number = Str(k)

\* C20: fetch_live_roster returns None when no player is kept and when the
\* transfer fails, and every result that is not None has a player or more.
C20_NullWhenNoPlayers ==
    ret.op = "fetch_live_roster" =>
        /\ ret.page = None => ret.result = None
        /\ (ret.page # None /\ Survivors(ret.page[1]) = << >>) =>
              ret.result = None
        /\ ret.result # None => ret.result[1].players # << >>

\* C20 witness: a page whose candidates were all dropped gave None
C20_Witness ==
    /\ FetchedPage
    /\ Len(ret.page[1].player_matches) >= 2
    /\ ret.page[1].captures[1] # None
    /\ ret.result = None

\* the captures of a page that are not the title of the site, by pattern
TeamCaptures(page) ==
    { k \in DOMAIN page.captures :
        page.captures[k] # None /\ ~IsSiteTitle(page.captures[k][1]) }

\* C21: the team name fetch_live_roster returns is the capture of the first
\* of the patterns h1, markdown heading, page title that matches with a
\* capture other than the title of the site, and a capture that holds the
\* title of the site ("Stats - Ontario Baseball") is never the team name,
\* whichever patterns match.
C21_SiteTitleNeverTeamName ==
    (FetchedPage /\ ret.result # None) =>
        /\ \A k \in TeamCaptures(ret.page[1]) :
              (\A j \in TeamCaptures(ret.page[1]) : k <= j) =>
                  ret.result[1].team_name = ret.page[1].captures[k][1]
        /\ ~IsSiteTitle(ret.result[1].team_name)

\* what does hold of the team name: with a capture that is not the title of the
\* site, the team name is the first such capture
C21_FirstTeamCapture ==
    (FetchedPage /\ ret.result # None) =>
        \A k \in TeamCaptures(ret.page[1]) :
            (\A j \in TeamCaptures(ret.page[1]) : k <= j) =>
                ret.result[1].team_name = ret.page[1].captures[k][1]

-----------------------------------------------------------------------------
(* Claims about import_roster_for_team.                                    *)

\* the stored teams a call of import_roster_for_team scores: all, or those
\* of its division
Searched(call) ==
    { i \in DOMAIN team_database :
        call.division = "" \/ team_database[i].division = call.division }

\* the score of a stored team for the name of the call
ScoreOf(call, i) ==
    Ratio(scores.token_sort_ratio, Lower(call.team_name),
          Lower(team_database[i].team_name))

\* the stored teams that match: a score above the minimum
Matched(call) == { i \in Searched(call) : ScoreOf(call, i) > MinMatchPercent }

\* the references of the matched teams with the highest score
BestUrls(call) ==
    { team_database[i].team_url : i \in
        { i \in Matched(call) :
            \A j \in Matched(call) : ScoreOf(call, j) <= ScoreOf(call, i) } }

\* the error a result reports, "" for none
ErrorOf(result) == IF "error" \in DOMAIN result THEN result.error ELSE ""

\* C22: import_roster_for_team reports "no matching team" only when the
\* search finds no candidate; it reports "could not fetch live roster data",
\* with the matched team attached, only when a team matched and its fetch
\* gave None; and a call fetches at most once, for a match of the highest
\* score only, never for a lower one.
C22_OneFetchForBestMatch ==
    ret.op = "import_roster_for_team" =>
        /\ ErrorOf(ret.result) = "No matching OBA teams found in database" =>
              Matched(ret) = {} /\ probes = << >>
        /\ ErrorOf(ret.result) = "Could not fetch live roster data" =>
              /\ Matched(ret) # {}
              /\ ret.result.team_match.url \in BestUrls(ret)
              /\ FetchLiveRoster(ret.result.team_match.url, ret.page, ret.at) = None
        /\ ErrorOf(ret.result) \in { "", "No matching OBA teams found in database",
                                    "Could not fetch live roster data" }
        /\ Len(probes) <= 1
        /\ \A k \in DOMAIN probes : probes[k].team_url \in BestUrls(ret)

\* C22 witness: two stored teams matched with different scores, the fetch
\* for the better one failed, and nothing else was fetched
C22_Witness ==
    /\ ret.op = "import_roster_for_team"
    /\ Cardinality(Matched(ret)) = 2
    /\ Cardinality(BestUrls(ret)) = 1
    /\ ErrorOf(ret.result) = "Could not fetch live roster data"
    /\ Len(probes) = 1

-----------------------------------------------------------------------------
(* Claims about OBARosterService.                                          *)

\* a call of the service has returned
ServiceReturned ==
    ret.op \in { "search_teams", "discover_teams_in_range", "get_cached_teams",
                 "extract_roster_for_team" }

\* extract_roster_for_team finds the team with pattern j
FoundWith(call, j) ==
    /\ ~call.responses[j].raised
    /\ call.responses[j].value.status_code = 200
    /\ call.responses[j].value.has_roster
    /\ ~call.cached[j].raised
    /\ \E i \in DOMAIN call.cached[j].value :
          /\ "team_id" \in DOMAIN call.cached[j].value[i]
          /\ call.cached[j].value[i].team_id = call.team_id

\* the collaborator raises for pattern i of extract_roster_for_team
RaisesWith(call, i) ==
    \/ call.responses[i].raised
    \/ /\ call.responses[i].value.status_code = 200
       /\ call.responses[i].value.has_roster
       /\ call.cached[i].raised

\* a call of the collaborator that the operation made has raised
CollaboratorRaised(call) ==
    CASE call.call = "search_teams" -> call.populate.raised \/ call.found.raised
      [] call.call = "discover_teams_in_range" -> call.scanned.raised
      [] call.call = "get_cached_teams" -> call.cached.raised
      [] call.call = "extract_roster_for_team" ->
            \E i \in DOMAIN patterns :
                /\ RaisesWith(call, i)
                /\ \A j \in 1..(i - 1) : ~FoundWith(call, j)

\* C23: search_teams, discover_teams_in_range, get_cached_teams and
\* extract_roster_for_team of OBARosterService return, for every input and
\* every answer of the collaborator, a result with a boolean success; an
\* exception of the collaborator gives success = false with an error and
\* is never raised to the caller.
C23_ServiceNeverRaises ==
    ServiceReturned =>
        /\ ret.result # Raised
        /\ "success" \in DOMAIN ret.result
        /\ ret.result.success \in BOOLEAN
        /\ CollaboratorRaised(ret.args) =>
              ~ret.result.success /\ "error" \in DOMAIN ret.result

\* C23 witness: extract_roster_for_team went past a pattern without the
\* team, the collaborator raised for the next one, and the result is a
\* failure with the message of the exception
C23_Witness ==
    /\ ret.op = "extract_roster_for_team"
    /\ ~RaisesWith(ret.args, 1)
    /\ ret.args.responses[1].value.status_code = 200
    /\ ret.args.responses[1].value.has_roster
    /\ ret.args.responses[2].raised
    /\ ret.result = [success |-> FALSE,
                     error |-> <<"Roster extraction error", "read timed out">>]

-----------------------------------------------------------------------------
(* Claims about the rosters of scrape_roster.                              *)

\* int(text) for the digits of a number
RECURSIVE IntOf(_)
IntOf(digits) ==
    IF digits = << >> THEN 0
    ELSE (IntOf(SubSeq(digits, 1, Len(digits) - 1)) * 10) + digits[Len(digits)]

\* C24: every roster scrape_roster returns, for every team URL, has
\* pairwise different player names, between 12 and 15 players, and player
\* numbers from 1 to 99.
C24_RosterWellFormed ==
    ret.op = "scrape_roster" =>
        LET players == ret.result[1].players
        IN  /\ \A i, j \in DOMAIN players :
                  players[i].name = players[j].name => i = j
            /\ Len(players) \in 12..15
            /\ \A i \in DOMAIN players : IntOf(players[i].number) \in 1..99

\* what does hold of a roster of scrape_roster: its size and its numbers
C24_SizeAndNumbers ==
    ret.op = "scrape_roster" =>
        LET players == ret.result[1].players
        IN  /\ Len(players) \in 12..15
            /\ \A i \in DOMAIN players : IntOf(players[i].number) \in 1..99

-----------------------------------------------------------------------------
(* Claims about the scans.                                                 *)

\* the places of the requests among the events of the last call
RequestPlaces == { i \in DOMAIN probes : probes[i].kind \in { "probe", "fetch" } }

\* C25: in a team scan (save_teams_to_database of COBATeamScraper,
\* build_comprehensive_team_database) the requests are sent one after
\* another, and between any two requests that follow each other the fixed
\* delay occurs, on every path through the loop.
C25_DelayBetweenProbes ==
    ret.op \in { "team_save", "build_comprehensive_team_database" } =>
        \A i, j \in RequestPlaces :
            i < j => \E k \in (i + 1)..(j - 1) : probes[k].kind = "sleep"

\* C26: check_roster_availability takes a timeout, an exception or a
\* response other than 200 as "no roster": the save loop does not raise and
\* still inserts the new team, with has_roster = false and player_count = 0;
\* and in every stored record has_roster = false implies player_count = 0.
C26_FailedProbeMeansNoRoster ==
    /\ \A i \in DOMAIN oba_teams :
          ~oba_teams[i].has_roster => oba_teams[i].player_count = 0
    /\ ret.op \in { "web_save", "team_save" } =>
          /\ ret.result \in Nat
          /\ \A k \in DOMAIN probes :
                (probes[k].kind = "probe" /\ probes[k].response # "200") =>
                    /\ RowsWithId(oba_teams, probes[k].team_id) # {}
                    /\ \A i \in RowsWithId(oba_teams, probes[k].team_id) :
                          /\ ~oba_teams[i].has_roster
                          /\ oba_teams[i].player_count = 0

\* C26 witness: a save whose probe timed out has stored the team without a
\* roster, next to a team stored with one
C26_Witness ==
    /\ ret.op \in { "web_save", "team_save" }
    /\ \E k \in DOMAIN probes :
          /\ probes[k].kind = "probe"
          /\ probes[k].response = "timeout"
          /\ \E i \in RowsWithId(oba_teams, probes[k].team_id) : ~oba_teams[i].has_roster
    /\ \E i \in DOMAIN oba_teams : oba_teams[i].has_roster

\* the scan of build_comprehensive_team_database has returned
Scanned == ret.op = "build_comprehensive_team_database"

\* the ids from start to end in steps of five
Sampled(start, end) ==
    { n \in start..end : (n - start) % 5 = 0 }

\* the team numbers requested for an affiliate, in the order of the requests
RequestedFor(affiliate) ==
    LET sent == SelectSeq(probes, LAMBDA e : e.team_url.aff = affiliate)
    IN  [k \in DOMAIN sent |-> sent[k].team_url.num]

\* a list of numbers is the ascending list of a set
AscendingListOf(list, S) ==
    /\ Len(list) = Cardinality(S)
    /\ { list[k] : k \in DOMAIN list } = S
    /\ \A k \in 1..(Len(list) - 1) : list[k] < list[k + 1]

\* the sum of the lengths of the team lists of all_teams
RECURSIVE SumOfLengths(_)
SumOfLengths(all_teams) ==
    IF all_teams = << >> THEN 0
    ELSE Len(all_teams[1][2]) + SumOfLengths(Tail(all_teams))

\* the ids of a world that the scan requests and that serve a team page
\* the scan keeps
KeptIn(world, start, end) ==
    { n \in Sampled(start, end) \cap DOMAIN world :
        /\ world[n][1].player_matches # << >>
        /\ world[n][1].captures # <<None, None, None>> }

\* C27: build_comprehensive_team_database requests, for each range (start,
\* end), the ids start, start + 5, start + 10, ... up to end, each once and
\* in ascending order; a request that fails does not stop the scan of the
\* ids after it; and total_teams is the sum of the lengths of the team
\* lists of the affiliates.
C27_ScanSamplesEveryFifthId ==
    Scanned =>
        /\ Len(probes) = 96
        /\ \A g \in DOMAIN scan_targets :
              LET target == scan_targets[g]
                  requested == RequestedFor(target.affiliate)
                  first == target.ranges[1]
              IN  IF Len(target.ranges) = 1
                  THEN AscendingListOf(requested, Sampled(first[1], first[2]))
                  ELSE LET n == Cardinality(Sampled(first[1], first[2]))
                           second == target.ranges[2]
                       IN  /\ AscendingListOf(SubSeq(requested, 1, n),
                                              Sampled(first[1], first[2]))
                           /\ AscendingListOf(
                                  SubSeq(requested, n + 1, Len(requested)),
                                  Sampled(second[1], second[2]))
        /\ ret.result.total_teams = SumOfLengths(ret.result.affiliates)
        /\ \A g \in DOMAIN scan_targets :
              /\ ret.result.affiliates[g][1] = scan_targets[g].name
              /\ \A r \in DOMAIN scan_targets[g].ranges :
                    \A n \in KeptIn(ret.world, scan_targets[g].ranges[r][1],
                                    scan_targets[g].ranges[r][2]) :
                        \E k \in DOMAIN ret.result.affiliates[g][2] :
                            ret.result.affiliates[g][2][k].id = n

\* C27 witness: the first id of a range gave no page, a later id of the
\* range gave a team page and was stored, and an id between two sampled
\* ids that has a page was not requested
C27_Witness ==
    /\ Scanned
    /\ 500400 \notin DOMAIN ret.world
    /\ 500405 \in KeptIn(ret.world, 500400, 500450)
    /\ 500402 \in DOMAIN ret.world
    /\ \A k \in DOMAIN probes : probes[k].team_url.num # 500402
    /\ ret.result.total_teams = 1
    /\ Len(team_database) = 1

-----------------------------------------------------------------------------
(* Claims about the confirmation of a match.                               *)

\* C28: when get_roster_with_fuzzy_match returns success = true,
\* matched_team is a name of the candidate mapping, team_url is the
\* reference stored for it there, needs_confirmation is true and the call
\* leaves the roster cache as it was; a roster is fetched and cached only by
\* confirm_and_get_roster(team_url) afterwards, and the roster it returns
\* has the team_url it was given.
C28_MatchThenConfirm ==
    [][/\ ret'.op = "get_roster_with_fuzzy_match" =>
            /\ roster_cache' = roster_cache
            /\ puts' = puts
            /\ ret'.result.success =>
                  /\ ret'.result.needs_confirmation
                  /\ \E i \in DOMAIN ret'.teams :
                        /\ ret'.teams[i].name = ret'.result.matched_team
                        /\ ret'.teams[i].url = ret'.result.team_url
       /\ roster_cache' # roster_cache =>
            /\ ret'.op = "confirm_and_get_roster"
            /\ ret.op = "get_roster_with_fuzzy_match"
            /\ ret'.team_url = ret.result.team_url
       /\ ret'.op = "confirm_and_get_roster" =>
            /\ ret'.result.success
            /\ ret'.result.roster.team_url = ret'.team_url
            /\ \E r \in roster_cache' : r.team_url = ret'.team_url
      ]_vars

\* C28 witness: a second match was confirmed, and the roster of its team_url
\* is returned and cached next to the roster of the first
C28_Witness ==
    /\ ret.op = "confirm_and_get_roster"
    /\ ret.result.success
    /\ ret.result.roster.team_url = ret.team_url
    /\ ret.team_url = TeamUrl("2111", 500718)
    /\ \E r \in roster_cache : r.team_url = ret.team_url
    /\ Cardinality({ r.team_url : r \in roster_cache }) = 2

-----------------------------------------------------------------------------
(* Claims about get_division_teams.                                        *)

\* the test teams that stand in for a division
TestTeamsFor(division) ==
    IF Has(division, "11U") THEN Catalog11U("2111")
    ELSE IF Has(division, "13U") THEN Catalog13U("2111")
    ELSE CatalogOther

\* C29: get_division_teams never returns an empty mapping, for any
\* affiliate and division and whether the request succeeds or not (for a
\* failed or empty lookup the test teams chosen by the division are
\* returned); so get_roster_with_fuzzy_match never fails with "Could not
\* retrieve teams for this division", and every failure it returns lists
\* available teams.
C29_DivisionTeamsNeverEmpty ==
    ret.op = "get_roster_with_fuzzy_match" =>
        /\ ret.teams # << >>
        /\ ret.teams \in ScrapedMappings \/ ret.teams = TestTeamsFor(ret.division)
        /\ ErrorOf(ret.result) # "Could not retrieve teams for this division"
        /\ ~ret.result.success =>
              /\ AvailableTeams(ret.result) # << >>
              /\ AvailableTeams(ret.result) = Keys(ret.teams)

\* C29 witness: a 13U call whose lookup gave nothing failed to match and
\* lists the 13U test teams
C29_Witness ==
    /\ ret.op = "get_roster_with_fuzzy_match"
    /\ Has(ret.division, "13U")
    /\ ret.teams = Catalog13U("2111")
    /\ ~ret.result.success
    /\ Len(AvailableTeams(ret.result)) = 14

=============================================================================
